---- MODULE Spec2Model ----
(***************************************************************************)
(* python-json-patch (jsonpatch.py 1.16): applying a JSON Patch (RFC 6902) *)
(* to a document, and synthesising a patch from two documents.             *)
(*                                                                         *)
(* Python objects live in a heap: a dict or a list is a cell with an       *)
(* address, and a container holds references to its members, so that two   *)
(* places holding the same object see each other's mutations exactly as in *)
(* Python.  Numbers are immutable and are held by value.                   *)
(*                                                                         *)
(* A JSON value read "by structure" is a tree: [t, n, c] with t the kind,   *)
(* n the number of a scalar (of a container: 0, or the address of the      *)
(* object when the tree is read by addressed), and c the members, each     *)
(* [key, v]; a list member has key "".  The members of a dict are kept in  *)
(* insertion order,                                                        *)
(* the order in which Python iterates over them; == does not see that      *)
(* order, so two values are compared by Same, not by =.                    *)
(*                                                                         *)
(* A call of JsonPatch.apply is a thread.  Nothing in jsonpatch.py holds a *)
(* lock, so an operation is not one step: a thread may be switched out     *)
(* between any two lines of an apply method that read or write objects     *)
(* another thread reaches.  to_last of jsonpointer is a loop of walk calls  *)
(* and copy.deepcopy is a loop over the members of each list and dict: a   *)
(* thread may be switched out between two turns of these; what else a line *)
(* calls outside jsonpatch.py (walk, del, insert, ==) is one step each.    *)
(***************************************************************************)
EXTENDS Integers, Sequences, FiniteSets, TLC

(* ------------------------------ bounds -------------------------------- *)
\* scalars are the numbers 1..MaxNum
MaxNum == 2
\* longest array of scalars among the documents given to apply
MaxLen == 2
\* longest patch made of the operations SeqOps
MaxOps == 2

\* the longest array and the largest number of the documents that are diffed
MaxDiffLen == 3

MaxDiffNum == 3

(* --------------------------- JSON values ------------------------------ *)
Kid(k, v) == [key |-> k, v |-> v]

Num(n) == [t |-> "num", n |-> n, c |-> <<>>]

Arr(s) == [t |-> "arr", n |-> 0, c |-> [i \in 1..Len(s) |-> Kid("", s[i])]]

\* the textual form of a list index, str(i), and the tokens that are one
DigitStr == <<"0", "1", "2", "3", "4", "5", "6", "7", "8", "9">>

\* str(i) and '%d' % i, for i from -1 on
str(i) == IF i = -1 THEN "-1" ELSE DigitStr[i + 1]

\* every token of the model, in an order by which the members of a dict
\* are sorted when two dicts are compared
TokOrder == <<"-", "-1">> \o DigitStr \o <<"a", "b">>

Rank(tok) == CHOOSE i \in 1..Len(TokOrder) : TokOrder[i] = tok

\* members kids with the member (k, v) set: replaced where it is when the
\* key is there, else put in last
SetKey(kids, k, v) ==
    IF \E i \in 1..Len(kids) : kids[i].key = k
    THEN [i \in 1..Len(kids) |-> IF kids[i].key = k THEN Kid(k, v) ELSE kids[i]]
    ELSE Append(kids, Kid(k, v))

HasKey(kids, k) == \E i \in 1..Len(kids) : kids[i].key = k

KeyAt(kids, k) == CHOOSE i \in 1..Len(kids) : kids[i].key = k

InsertAt(s, i, e) == SubSeq(s, 1, i) \o <<e>> \o SubSeq(s, i + 1, Len(s))

RemoveAt(s, i) == SubSeq(s, 1, i) \o SubSeq(s, i + 2, Len(s))

\* the dict {"a": va}, {"a": va, "b": vb}, and {}
EmptyObj == [t |-> "obj", n |-> 0, c |-> <<>>]

\* the value member of a record that has none
NoValue == Num(0)

Obj1(k, v) == [t |-> "obj", n |-> 0, c |-> <<Kid(k, v)>>]

Obj2(k1, v1, k2, v2) == [t |-> "obj", n |-> 0, c |-> SetKey(<<Kid(k1, v1)>>, k2, v2)]

IsTreeSeq(v) == v.t = "arr"

IsTreeMap(v) == v.t = "obj"

\* the member of kids that is the i-th in key order
KeySorted(kids, i) ==
    kids[CHOOSE j \in 1..Len(kids) :
             Cardinality({m \in 1..Len(kids) : Rank(kids[m].key) < Rank(kids[j].key)})
                 = i - 1]

RECURSIVE Plain(_)
\* what == sees of a value: neither which objects it is made of nor the
\* order of the members of a dict
PlainKid(kid) == Kid(kid.key, Plain(kid.v))

Plain(v) ==
    IF v.t = "num"
    THEN v
    ELSE [t |-> v.t, n |-> 0,
          c |-> [i \in 1..Len(v.c) |->
                    PlainKid(IF v.t = "obj" THEN KeySorted(v.c, i) ELSE v.c[i])]]

\* a == b on two values
Same(a, b) == Plain(a) = Plain(b)

(* ------------------------------ the heap ------------------------------ *)
\* a slot holds a number by value or the address of a container
NumSlot(n) == [t |-> "num", n |-> n]

Ref(a) == [t |-> "ref", n |-> a]

\* isinstance(x, MutableSequence), isinstance(x, MutableMapping)
IsSeq(h, s) == s.t = "ref" /\ h[s.n].t = "arr"

IsMap(h, s) == s.t = "ref" /\ h[s.n].t = "obj"

\* The entries of a dict: CPython keeps the members in an array in the
\* order they were put in, del leaves a hole in it, and a new key goes
\* behind the last entry.  A cell of the heap holds, with its members c,
\* the place pos[i] in that array of the member c[i], top, the number of
\* entries and holes, and cap, the room of the array.  An insertion that
\* finds no room makes a new array without the holes, with room for
\* the number of members it has: 5 entries for none, 10 for up to 5,
\* 21 for up to 10 (dictobject.c: USABLE_FRACTION of
\* calculate_log2_keysize(GROWTH_RATE)).  Only an iterator sees them.
KeysCap(used) ==
    IF used = 0 THEN 5 ELSE IF used <= 5 THEN 10 ELSE IF used <= 10 THEN 21 ELSE 42

\* a new object of type t with the members c, a dict as the insertion
\* of them into {} builds it; a list has no entries
Cell(t, c) ==
    [t |-> t, c |-> c,
     pos |-> IF t = "obj" THEN [i \in 1..Len(c) |-> i] ELSE <<>>,
     top |-> IF t = "obj" THEN Len(c) ELSE 0,
     cap |-> IF t # "obj" THEN 0
             ELSE IF Len(c) <= 5 THEN 5 ELSE IF Len(c) <= 10 THEN 10 ELSE 21]

RECURSIVE alloc(_, _)
RECURSIVE allocKids(_, _, _)
\* a fresh object graph for the tree v: what a JSON parser or
\* copy.deepcopy builds; the result is the new heap and the slot of the root
allocCell(t, r) ==
    [h |-> Append(r.h, Cell(t, r.c)), s |-> Ref(Len(r.h) + 1)]

alloc(h, v) ==
    IF v.t = "num"
    THEN [h |-> h, s |-> NumSlot(v.n)]
    ELSE allocCell(v.t, allocKids(h, v.c, <<>>))

allocKid(kids, acc, a) ==
    allocKids(a.h, Tail(kids), Append(acc, Kid(Head(kids).key, a.s)))

allocKids(h, kids, acc) ==
    IF kids = <<>>
    THEN [h |-> h, c |-> acc]
    ELSE allocKid(kids, acc, alloc(h, Head(kids).v))

RECURSIVE deref(_, _)
\* the structure reachable from slot s: the value Python's == compares
deref(h, s) ==
    IF s.t = "num"
    THEN Num(s.n)
    ELSE [t |-> h[s.n].t, n |-> 0,
          c |-> [i \in 1..Len(h[s.n].c) |->
                    Kid(h[s.n].c[i].key, deref(h, h[s.n].c[i].v))]]

RECURSIVE addressed(_, _)
\* the structure reachable from slot s with every container naming the
\* object it is: n is its address
addressed(h, s) ==
    IF s.t = "num"
    THEN Num(s.n)
    ELSE [t |-> h[s.n].t, n |-> s.n,
          c |-> [i \in 1..Len(h[s.n].c) |->
                    Kid(h[s.n].c[i].key, addressed(h, h[s.n].c[i].v))]]

\* the slot of the value v of an addressed structure
slot_of(v) == IF v.t = "num" THEN NumSlot(v.n) ELSE Ref(v.n)

(* ---------------------- jsonpointer.JsonPointer ----------------------- *)
\* A pointer is the sequence of its reference tokens (JsonPointer.parts);
\* the tokens of the model hold neither "/" nor "~".
NoErr == "none"

IsIndexTok(tok) == \E i \in 1..Len(DigitStr) : DigitStr[i] = tok

int(tok) == (CHOOSE i \in 1..Len(DigitStr) : DigitStr[i] = tok) - 1

\* a step of a pointer in its type: the key of a mapping, "-" or the
\* integer index of a sequence; anything else cannot be indexed
get_part(h, doc, part) ==
    IF IsMap(h, doc)
    THEN [err |-> NoErr, none |-> FALSE, isInt |-> FALSE, idx |-> 0, tok |-> part]
    ELSE IF IsSeq(h, doc)
    THEN IF part = "-"
         THEN [err |-> NoErr, none |-> FALSE, isInt |-> FALSE, idx |-> 0, tok |-> part]
         ELSE IF ~IsIndexTok(part)
         THEN [err |-> "JsonPointerException", none |-> FALSE, isInt |-> FALSE,
               idx |-> 0, tok |-> part]
         ELSE [err |-> NoErr, none |-> FALSE, isInt |-> TRUE, idx |-> int(part),
               tok |-> part]
    ELSE [err |-> "JsonPointerException", none |-> FALSE, isInt |-> FALSE, idx |-> 0,
          tok |-> part]

\* one step into doc, p being the step in its type; eol marks the
\* EndOfList object that "-" yields
walk_part(h, doc, part, p) ==
    IF p.err # NoErr
    THEN [err |-> p.err, s |-> doc, eol |-> FALSE]
    ELSE IF IsMap(h, doc)
    THEN IF HasKey(h[doc.n].c, part)
         THEN [err |-> NoErr, s |-> h[doc.n].c[KeyAt(h[doc.n].c, part)].v, eol |-> FALSE]
         ELSE [err |-> "JsonPointerException", s |-> doc, eol |-> FALSE]
    ELSE IF part = "-"
    THEN [err |-> NoErr, s |-> doc, eol |-> TRUE]
    ELSE IF p.idx < Len(h[doc.n].c)
    THEN [err |-> NoErr, s |-> h[doc.n].c[p.idx + 1].v, eol |-> FALSE]
    ELSE [err |-> "JsonPointerException", s |-> doc, eol |-> FALSE]

walk(h, doc, part) == walk_part(h, doc, part, get_part(h, doc, part))

RECURSIVE walk_all(_, _, _)
\* the loop of to_last and resolve after the step w: an EndOfList object
\* supports no further step
walk_next(h, doc, parts, w) ==
    IF w.err # NoErr
    THEN w
    ELSE IF w.eol
    THEN IF Tail(parts) = <<>>
         THEN w
         ELSE [err |-> "JsonPointerException", s |-> doc, eol |-> FALSE]
    ELSE walk_all(h, w.s, Tail(parts))

walk_all(h, doc, parts) ==
    IF parts = <<>>
    THEN [err |-> NoErr, s |-> doc, eol |-> FALSE]
    ELSE walk_next(h, doc, parts, walk(h, doc, Head(parts)))

\* the last step of to_last, w being where the steps before it led
to_last_part(doc, w, p) ==
    IF w.err # NoErr \/ w.eol
    THEN [err |-> "JsonPointerException", sub |-> doc, none |-> FALSE,
          isInt |-> FALSE, idx |-> 0, tok |-> ""]
    ELSE [err |-> p.err, sub |-> w.s, none |-> FALSE, isInt |-> p.isInt,
          idx |-> p.idx, tok |-> p.tok]

to_last_from(h, doc, parts, w) ==
    to_last_part(doc, w, get_part(h, w.s, parts[Len(parts)]))

\* to_last: the parent container and the last step; (doc, None) for the
\* empty pointer
to_last(h, doc, parts) ==
    IF parts = <<>>
    THEN [err |-> NoErr, sub |-> doc, none |-> TRUE, isInt |-> FALSE, idx |-> 0,
          tok |-> ""]
    ELSE to_last_from(h, doc, parts, walk_all(h, doc, SubSeq(parts, 1, Len(parts) - 1)))

\* to_last before the first turn of its loop: doc is the document, and
\* idx counts the steps taken
to_last_begin(doc) ==
    [err |-> NoErr, sub |-> doc, none |-> FALSE, isInt |-> FALSE, idx |-> 0, tok |-> ""]

\* the turn of the loop of to_last that took the step w from tl: to_last
\* is done when the step failed or was the last but one of the pointer,
\* and then returns or raises without another read of the document
to_last_turned(h, doc, parts, tl, w) ==
    IF w.err # NoErr \/ w.eol \/ tl.idx + 1 >= Len(parts) - 1
    THEN [done |-> TRUE, tl |-> to_last_from(h, doc, parts, w)]
    ELSE [done |-> FALSE, tl |-> [tl EXCEPT !.sub = w.s, !.idx = @ + 1]]

\* to_last from where its loop got to, tl, up to the next read of the
\* document: one turn of for part in self.parts[:-1]: doc = walk(doc, part);
\* a pointer of one step or none reads nothing
to_last_turn(h, doc, parts, tl) ==
    IF Len(parts) <= 1
    THEN [done |-> TRUE, tl |-> to_last(h, doc, parts)]
    ELSE to_last_turned(h, doc, parts, tl, walk(h, tl.sub, parts[tl.idx + 1]))

\* JsonPointer.contains: ptr is a prefix of self
contains(self, ptr) ==
    Len(ptr) <= Len(self) /\ SubSeq(self, 1, Len(ptr)) = ptr

(* ------------------- list and dict operations ------------------------ *)
\* the result of an operation: the heap and the document it leaves, and
\* the exception it raised (NoErr when it returned)
R(h, obj, err) == [h |-> h, obj |-> obj, err |-> err]

Len_(h, s) == Len(h[s.n].c)

\* subobj.insert(i, value), which appends when i is past the end;
\* subobj.append(value) is the insert at len
list_insert(h, s, i, value) ==
    [h EXCEPT ![s.n].c = InsertAt(@, IF i > Len(@) THEN Len(@) ELSE i, Kid("", value))]

\* subobj[i] = value on a list, i < len
list_setitem(h, s, i, value) ==
    [h EXCEPT ![s.n].c = [@ EXCEPT ![i + 1] = Kid("", value)]]

\* del subobj[i] on a list, i < len
list_delitem(h, s, i) ==
    [h EXCEPT ![s.n].c = RemoveAt(@, i)]

\* the dict cell with key set to value: a key that is there keeps its
\* entry, a new one gets the entry behind the last, in a new array when
\* there is no room
dict_put(cell, key, value) ==
    IF HasKey(cell.c, key)
    THEN [cell EXCEPT !.c = SetKey(@, key, value)]
    ELSE IF cell.top >= cell.cap
    THEN [cell EXCEPT !.c = Append(@, Kid(key, value)),
                      !.pos = [i \in 1..Len(cell.c) + 1 |-> i],
                      !.top = Len(cell.c) + 1,
                      !.cap = KeysCap(Len(cell.c))]
    ELSE [cell EXCEPT !.c = Append(@, Kid(key, value)),
                      !.pos = Append(@, cell.top + 1),
                      !.top = @ + 1]

\* subobj[key] = value on a dict
dict_setitem(h, s, key, value) ==
    [h EXCEPT ![s.n] = dict_put(h[s.n], key, value)]

\* the dict cell without the member i + 1, whose entry is a hole now
dict_drop(cell, i) ==
    [cell EXCEPT !.c = RemoveAt(@, i), !.pos = RemoveAt(@, i)]

\* del subobj[key] on a dict that has the key
dict_delitem(h, s, key) ==
    [h EXCEPT ![s.n] = dict_drop(h[s.n], KeyAt(h[s.n].c, key) - 1)]

\* subobj[part] as MoveOperation and CopyOperation read it, part being
\* the last step to_last returned: KeyError and IndexError are the
\* conflict the caller reports, a None or "-" index of a list and any
\* index of a number are a TypeError
getitem(h, tl) ==
    IF IsMap(h, tl.sub)
    THEN IF ~tl.none /\ HasKey(h[tl.sub.n].c, tl.tok)
         THEN [err |-> NoErr, s |-> h[tl.sub.n].c[KeyAt(h[tl.sub.n].c, tl.tok)].v]
         ELSE [err |-> "JsonPatchConflict", s |-> tl.sub]
    ELSE IF IsSeq(h, tl.sub)
    THEN IF ~tl.isInt
         THEN [err |-> "TypeError", s |-> tl.sub]
         ELSE IF tl.idx < Len_(h, tl.sub)
         THEN [err |-> NoErr, s |-> h[tl.sub.n].c[tl.idx + 1].v]
         ELSE [err |-> "JsonPatchConflict", s |-> tl.sub]
    ELSE [err |-> "TypeError", s |-> tl.sub]

(* --------------------------- copy.deepcopy ---------------------------- *)
\* copy.deepcopy is Python code, a loop over the members of each list and
\* dict it meets, and it holds no lock: a thread may be switched out
\* between two turns of a loop.  A copy under way is a stack of the loops
\* that are open, and the memo.  The loop of a frame reads the object x and
\* fills the copy y: i is how far its iterator is (the index of a list,
\* the entry of a dict), n the size the dict had when the iterator was
\* made (-1 before), left the members the iterator has yet to give, and
\* key the key under which y goes into the copy of the frame below.
CopyFrame(x, y, key) == [x |-> x, y |-> y, i |-> 0, n |-> -1, left |-> 0, key |-> key]

\* no copy under way
NoCopy == [stack |-> <<>>, memo |-> <<>>]

\* what a step of a copy did: the heap and the copy cp under way with s
\* the copy the top frame fills, or it is done and s is the copy, or it
\* raised err
CopyStep(h, cp, done, err, s) == [h |-> h, cp |-> cp, done |-> done, err |-> err, s |-> s]

\* memo.get(id(x)): the address of the copy of the object at a, or 0
memo_get(memo, a) ==
    IF \E i \in 1..Len(memo) : memo[i].x = a
    THEN memo[CHOOSE i \in 1..Len(memo) : memo[i].x = a].y
    ELSE 0

\* append(value) and y[key] = value on the copy at y
copy_put(h, y, key, value) ==
    IF h[y].t = "arr"
    THEN list_insert(h, Ref(y), Len(h[y].c), value)
    ELSE dict_setitem(h, Ref(y), key, value)

\* _deepcopy_list and _deepcopy_dict are entered for the object at a,
\* which a member with key gave: y = [] or {} and memo[id(x)] = y
copy_enter(h, cp, key, a) ==
    CopyStep(Append(h, Cell(h[a].t, <<>>)),
             [stack |-> Append(cp.stack, CopyFrame(a, Len(h) + 1, key)),
              memo |-> Append(cp.memo, [x |-> a, y |-> Len(h) + 1])],
             FALSE, NoErr, Ref(Len(h) + 1))

\* the iterator of the top frame, f from now on, gave the member a with
\* key: deepcopy(a, memo) is a itself for a number and the copy the memo
\* has for an object met before, and these go into y; for another object
\* its own loop is entered
copy_met(h, cp, f, key, a) ==
    IF a.t = "num"
    THEN CopyStep(copy_put(h, f.y, key, a),
                  [cp EXCEPT !.stack[Len(cp.stack)] = f], FALSE, NoErr, Ref(f.y))
    ELSE IF memo_get(cp.memo, a.n) # 0
    THEN CopyStep(copy_put(h, f.y, key, Ref(memo_get(cp.memo, a.n))),
                  [cp EXCEPT !.stack[Len(cp.stack)] = f], FALSE, NoErr, Ref(f.y))
    ELSE copy_enter(h, [cp EXCEPT !.stack[Len(cp.stack)] = f], key, a.n)

\* the iterator of the top frame f is exhausted: return y, which is the
\* copy when f is the only frame, and else goes into the copy of the
\* frame below
copy_return(h, cp, f) ==
    IF Len(cp.stack) = 1
    THEN CopyStep(h, NoCopy, TRUE, NoErr, Ref(f.y))
    ELSE CopyStep(copy_put(h, cp.stack[Len(cp.stack) - 1].y, f.key, Ref(f.y)),
                  [cp EXCEPT !.stack = SubSeq(@, 1, Len(@) - 1)], FALSE, NoErr,
                  Ref(cp.stack[Len(cp.stack) - 1].y))

\* for a in x, one turn: the list iterator reads the length and the
\* member at its index as they are now
list_next(h, cp, f) ==
    IF f.i < Len(h[f.x].c)
    THEN copy_met(h, cp, [f EXCEPT !.i = @ + 1], "", h[f.x].c[f.i + 1].v)
    ELSE copy_return(h, cp, f)

\* the member of the dict cell with the first entry behind the entry i
entry_after(cell, i) ==
    CHOOSE j \in 1..Len(cell.c) :
        /\ cell.pos[j] > i
        /\ \A m \in 1..Len(cell.c) : cell.pos[m] > i => cell.pos[j] <= cell.pos[m]

\* for key, value in x.items(), one turn: the first turn makes the
\* iterator, which keeps the size of the dict; a later turn raises
\* RuntimeError when the dict has not that size now, or has an entry
\* left when the iterator has given that many members
dict_next(h, cp, f) ==
    IF f.n # -1 /\ Len(h[f.x].c) # f.n
    THEN CopyStep(h, NoCopy, TRUE, "RuntimeError", Ref(f.y))
    ELSE IF \A j \in 1..Len(h[f.x].c) : h[f.x].pos[j] <= f.i
    THEN copy_return(h, cp, f)
    ELSE IF f.n # -1 /\ f.left = 0
    THEN CopyStep(h, NoCopy, TRUE, "RuntimeError", Ref(f.y))
    ELSE copy_met(h, cp,
                  [f EXCEPT !.i = h[f.x].pos[entry_after(h[f.x], f.i)],
                            !.n = Len(h[f.x].c),
                            !.left = IF f.n = -1 THEN Len(h[f.x].c) - 1 ELSE @ - 1],
                  h[f.x].c[entry_after(h[f.x], f.i)].key,
                  h[f.x].c[entry_after(h[f.x], f.i)].v)

\* one turn of the loop of the top frame of the copy cp
copy_turn(h, cp) ==
    IF h[cp.stack[Len(cp.stack)].x].t = "arr"
    THEN list_next(h, cp, cp.stack[Len(cp.stack)])
    ELSE dict_next(h, cp, cp.stack[Len(cp.stack)])

\* copy.deepcopy(x) is called for the slot s: a number is its own copy
copy_begin(h, s) ==
    IF s.t = "num"
    THEN CopyStep(h, NoCopy, TRUE, NoErr, s)
    ELSE copy_enter(h, NoCopy, "", s.n)

RECURSIVE copy_turns(_, _)
\* the copy m goes on to its end with no other thread between its turns
copy_on(m) == IF m.done THEN m ELSE copy_turns(m.h, m.cp)

copy_turns(h, cp) == copy_on(copy_turn(h, cp))

\* copy.deepcopy(x) as one thread runs it
deepcopy(h, s) == copy_on(copy_begin(h, s))

\* copy.deepcopy(x) up to the first turn of its first loop
copy_start(m) == IF m.done THEN m ELSE copy_turn(m.h, m.cp)

(* --------------------------- operations ------------------------------- *)
\* An operation record is the dict of the patch: op, path (its tokens),
\* value (a slot: the patch holds the object itself) and from, with
\* hasValue and hasFrom telling whether the member is there; opm tells
\* whether op is a string ("str"), is missing or is not a string ("int").
MkOp(op, path, hasValue, value, hasFrom, from) ==
    [opm |-> "str", op |-> op, path |-> path, hasValue |-> hasValue,
     value |-> value, hasFrom |-> hasFrom, from |-> from]

\* What a thread holds between two lines of an apply method: at, the
\* line it goes on from; tl, what to_last returned (subobj and part);
\* value, the local value (val in TestOperation.apply); cp, the copy
\* copy.deepcopy has under way.  A thread is switched out only between
\* lines that read or write objects another thread reaches: the lines
\* between two such are one step.
Frame(at, tl, value) == [at |-> at, tl |-> tl, value |-> value, cp |-> NoCopy]

NoPart ==
    [err |-> NoErr, sub |-> NumSlot(0), none |-> FALSE, isInt |-> FALSE, idx |-> 0,
     tok |-> ""]

\* the frame of an operation that has not begun, and of one that is over
Start == Frame("start", NoPart, NumSlot(0))

Over == Frame("over", NoPart, NumSlot(0))

\* what one step did: the heap and obj it leaves, and the method goes on
\* from a line, returned obj, or raised err
GoOn(h, obj, at, tl, value) ==
    [h |-> h, obj |-> obj, err |-> NoErr, loc |-> Frame(at, tl, value)]

Returns(h, obj) == [h |-> h, obj |-> obj, err |-> NoErr, loc |-> Over]

Raises(h, obj, err) == [h |-> h, obj |-> obj, err |-> err, loc |-> Over]

\* subobj, part = pointer.to_last(obj) gave tl: the method goes on at the
\* line at unless the pointer raised
resolve(h, obj, at, value, tl) ==
    IF tl.err # NoErr
    THEN Raises(h, obj, tl.err)
    ELSE GoOn(h, obj, at, tl, value)

\* subobj, part = pointer.to_last(obj) took the turn t of its loop: the
\* thread is inside to_last still, at the line at, or to_last is done and
\* the method goes on at the line after
resolving(h, obj, at, after, value, t) ==
    IF t.done
    THEN resolve(h, obj, after, value, t.tl)
    ELSE GoOn(h, obj, at, t.tl, value)

\* RemoveOperation.apply with the KeyError swallowed: the removal of a
\* key that is not there does nothing
remove_at_quiet(h, obj, tl) ==
    IF IsMap(h, tl.sub)
    THEN IF ~tl.none /\ HasKey(h[tl.sub.n].c, tl.tok)
         THEN Returns(dict_delitem(h, tl.sub, tl.tok), obj)
         ELSE Returns(h, obj)
    ELSE IF IsSeq(h, tl.sub)
    THEN IF ~tl.isInt
         THEN Raises(h, obj, "TypeError")
         ELSE IF tl.idx < Len_(h, tl.sub)
         THEN Returns(list_delitem(h, tl.sub, tl.idx), obj)
         ELSE Raises(h, obj, "JsonPatchConflict")
    ELSE Raises(h, obj, "TypeError")

\* del subobj[part], tl being what to_last returned
remove_at(h, obj, tl) ==
    IF IsMap(h, tl.sub)
    THEN IF ~tl.none /\ HasKey(h[tl.sub.n].c, tl.tok)
         THEN Returns(dict_delitem(h, tl.sub, tl.tok), obj)
         ELSE Raises(h, obj, "JsonPatchConflict")
    ELSE IF IsSeq(h, tl.sub)
    THEN IF ~tl.isInt
         THEN Raises(h, obj, "TypeError")
         ELSE IF tl.idx < Len_(h, tl.sub)
         THEN Returns(list_delitem(h, tl.sub, tl.idx), obj)
         ELSE Raises(h, obj, "JsonPatchConflict")
    ELSE Raises(h, obj, "TypeError")

\* RemoveOperation.apply from the frame loc: to_last, then the del
RemoveOperation_apply(h, obj, operation, loc) ==
    IF loc.at = "start"
    THEN resolving(h, obj, "to_last", "del", NumSlot(0),
                   to_last_turn(h, obj, operation.path, to_last_begin(obj)))
    ELSE IF loc.at = "to_last"
    THEN resolving(h, obj, "to_last", "del", NumSlot(0),
                   to_last_turn(h, obj, operation.path, loc.tl))
    ELSE remove_at(h, obj, loc.tl)

\* AddOperation.apply with the bound of the index one too low: an
\* insertion at len is refused
add_at_below_len(h, obj, value, tl) ==
    IF IsSeq(h, tl.sub)
    THEN IF ~tl.none /\ tl.tok = "-"
         THEN Returns(list_insert(h, tl.sub, Len_(h, tl.sub), value), obj)
         ELSE IF tl.none
         THEN Raises(h, obj, "TypeError")
         ELSE IF tl.idx >= Len_(h, tl.sub) \/ tl.idx < 0
         THEN Raises(h, obj, "JsonPatchConflict")
         ELSE GoOn(h, obj, "insert", tl, value)
    ELSE IF IsMap(h, tl.sub)
    THEN IF tl.none
         THEN Returns(h, value)
         ELSE Returns(dict_setitem(h, tl.sub, tl.tok, value), obj)
    ELSE Raises(h, obj, "TypeError")

\* the lines of AddOperation.apply after to_last returned tl, up to the
\* insert: the append, the check of the index against len(subobj), the
\* assignment to a key, or the new root
add_at(h, obj, value, tl) ==
    IF IsSeq(h, tl.sub)
    THEN IF ~tl.none /\ tl.tok = "-"
         THEN Returns(list_insert(h, tl.sub, Len_(h, tl.sub), value), obj)
         ELSE IF tl.none
         THEN Raises(h, obj, "TypeError")
         ELSE IF tl.idx > Len_(h, tl.sub) \/ tl.idx < 0
         THEN Raises(h, obj, "JsonPatchConflict")
         ELSE GoOn(h, obj, "insert", tl, value)
    ELSE IF IsMap(h, tl.sub)
    THEN IF tl.none
         THEN Returns(h, value)
         ELSE Returns(dict_setitem(h, tl.sub, tl.tok, value), obj)
    ELSE Raises(h, obj, "TypeError")

\* AddOperation({'op': 'add', 'path': path, 'value': loc.value}).apply(obj)
\* from the frame loc: to_last, then the lines up to the insert, then
\* subobj.insert(part, value)
add_value(h, obj, path, loc) ==
    IF loc.at = "add"
    THEN resolving(h, obj, "to_last_add", "put", loc.value,
                   to_last_turn(h, obj, path, to_last_begin(obj)))
    ELSE IF loc.at = "to_last_add"
    THEN resolving(h, obj, "to_last_add", "put", loc.value,
                   to_last_turn(h, obj, path, loc.tl))
    ELSE IF loc.at = "put"
    THEN add_at(h, obj, loc.value, loc.tl)
    ELSE Returns(list_insert(h, loc.tl.sub, loc.tl.idx, loc.value), obj)

AddOperation_apply(h, obj, operation, loc) ==
    IF loc.at # "start"
    THEN add_value(h, obj, operation.path, loc)
    ELSE IF ~operation.hasValue
    THEN Raises(h, obj, "InvalidJsonPatch")
    ELSE add_value(h, obj, operation.path, Frame("add", NoPart, operation.value))

\* the lines of ReplaceOperation.apply after to_last returned tl, up to
\* the assignment: the new root, or the check of the location
replace_at(h, obj, value, tl) ==
    IF tl.none
    THEN Returns(h, value)
    ELSE IF IsSeq(h, tl.sub)
    THEN IF ~tl.isInt
         THEN Raises(h, obj, "TypeError")
         ELSE IF tl.idx > Len_(h, tl.sub) \/ tl.idx < 0
         THEN Raises(h, obj, "JsonPatchConflict")
         ELSE GoOn(h, obj, "assign", tl, value)
    ELSE IF IsMap(h, tl.sub)
    THEN IF ~HasKey(h[tl.sub.n].c, tl.tok)
         THEN Raises(h, obj, "JsonPatchConflict")
         ELSE GoOn(h, obj, "assign", tl, value)
    ELSE Raises(h, obj, "TypeError")

\* subobj[part] = value of ReplaceOperation.apply: a list has no place
\* at len or past it, a dict takes a key it has not
replace_value(h, obj, value, tl) ==
    IF IsMap(h, tl.sub)
    THEN Returns(dict_setitem(h, tl.sub, tl.tok, value), obj)
    ELSE IF tl.idx < Len_(h, tl.sub)
    THEN Returns(list_setitem(h, tl.sub, tl.idx, value), obj)
    ELSE Raises(h, obj, "IndexError")

ReplaceOperation_apply(h, obj, operation, loc) ==
    IF loc.at = "assign"
    THEN replace_value(h, obj, loc.value, loc.tl)
    ELSE IF loc.at = "check"
    THEN replace_at(h, obj, loc.value, loc.tl)
    ELSE IF loc.at = "to_last"
    THEN resolving(h, obj, "to_last", "check", loc.value,
                   to_last_turn(h, obj, operation.path, loc.tl))
    ELSE IF ~operation.hasValue
    THEN Raises(h, obj, "InvalidJsonPatch")
    ELSE resolving(h, obj, "to_last", "check", operation.value,
                   to_last_turn(h, obj, operation.path, to_last_begin(obj)))

\* MoveOperation.apply without the removal: the value is added and stays
\* where it was
move_value_kept(h, obj, operation, tl, value) ==
    IF value.err # NoErr
    THEN Raises(h, obj, value.err)
    ELSE IF operation.path = operation.from
    THEN Returns(h, obj)
    ELSE IF IsMap(h, tl.sub) /\ contains(operation.path, operation.from)
    THEN Raises(h, obj, "JsonPatchConflict")
    ELSE GoOn(h, obj, "add", NoPart, value.s)

\* the lines of MoveOperation.apply after from_ptr.to_last returned tl,
\* up to the removal: value is what subobj[part] gave
move_value(h, obj, operation, tl, value) ==
    IF value.err # NoErr
    THEN Raises(h, obj, value.err)
    ELSE IF operation.path = operation.from
    THEN Returns(h, obj)
    ELSE IF IsMap(h, tl.sub) /\ contains(operation.path, operation.from)
    THEN Raises(h, obj, "JsonPatchConflict")
    ELSE GoOn(h, obj, "remove", NoPart, value.s)

\* obj = RemoveOperation(...).apply(obj) did rm: the addition of value is
\* next unless it raised
removed(rm, value) ==
    IF rm.err # NoErr
    THEN rm
    ELSE GoOn(rm.h, rm.obj, "add", NoPart, value)

\* MoveOperation.apply from the frame loc: from_ptr.to_last, the read of
\* the value and the checks, then RemoveOperation.apply and
\* AddOperation.apply, each with a to_last of its own
MoveOperation_apply(h, obj, operation, loc) ==
    IF loc.at = "start"
    THEN IF ~operation.hasFrom
         THEN Raises(h, obj, "InvalidJsonPatch")
         ELSE resolving(h, obj, "to_last", "value", NumSlot(0),
                        to_last_turn(h, obj, operation.from, to_last_begin(obj)))
    ELSE IF loc.at = "to_last"
    THEN resolving(h, obj, "to_last", "value", NumSlot(0),
                   to_last_turn(h, obj, operation.from, loc.tl))
    ELSE IF loc.at = "value"
    THEN move_value(h, obj, operation, loc.tl, getitem(h, loc.tl))
    ELSE IF loc.at = "remove"
    THEN resolving(h, obj, "to_last_remove", "del", loc.value,
                   to_last_turn(h, obj, operation.from, to_last_begin(obj)))
    ELSE IF loc.at = "to_last_remove"
    THEN resolving(h, obj, "to_last_remove", "del", loc.value,
                   to_last_turn(h, obj, operation.from, loc.tl))
    ELSE IF loc.at = "del"
    THEN removed(remove_at(h, obj, loc.tl), loc.value)
    ELSE add_value(h, obj, operation.path, loc)

\* the EndOfList object that the step "-" of a pointer yields in a list
EndOfList == [t |-> "eol", n |-> 0]

\* val of TestOperation.apply: the value slot of the frame
val_of(value) == [err |-> NoErr, s |-> value, eol |-> value = EndOfList]

\* TestOperation.apply taking the value member for granted
test_value_unchecked(h, obj, operation, val) ==
    IF val.eol \/ ~Same(deref(h, val.s), deref(h, operation.value))
    THEN Raises(h, obj, "JsonPatchTestFailed")
    ELSE Returns(h, obj)

\* the lines of TestOperation.apply after the pointer resolved to val:
\* the value member, then val != value
test_value(h, obj, operation, val) ==
    IF ~operation.hasValue
    THEN Raises(h, obj, "InvalidJsonPatch")
    ELSE IF val.eol \/ ~Same(deref(h, val.s), deref(h, operation.value))
    THEN Raises(h, obj, "JsonPatchTestFailed")
    ELSE Returns(h, obj)

\* val = self.pointer.walk(subobj, part) gave w
test_walk(h, obj, tl, w) ==
    IF w.err # NoErr
    THEN Raises(h, obj, "JsonPatchTestFailed")
    ELSE GoOn(h, obj, "compare", tl, IF w.eol THEN EndOfList ELSE w.s)

\* TestOperation.apply letting the exception of the pointer through
test_at_unconverted(h, obj, tl) ==
    IF tl.err # NoErr
    THEN Raises(h, obj, tl.err)
    ELSE IF tl.none
    THEN GoOn(h, obj, "compare", tl, tl.sub)
    ELSE GoOn(h, obj, "walk", tl, NumSlot(0))

\* to_last returned tl in TestOperation.apply: a JsonPointerException is
\* a failed test, val is subobj for the empty pointer, else the walk of
\* the last step is next
test_at(h, obj, tl) ==
    IF tl.err # NoErr
    THEN Raises(h, obj, "JsonPatchTestFailed")
    ELSE IF tl.none
    THEN GoOn(h, obj, "compare", tl, tl.sub)
    ELSE GoOn(h, obj, "walk", tl, NumSlot(0))

\* to_last took the turn t of its loop in TestOperation.apply
test_resolving(h, obj, t) ==
    IF t.done
    THEN test_at(h, obj, t.tl)
    ELSE GoOn(h, obj, "to_last", t.tl, NumSlot(0))

TestOperation_apply(h, obj, operation, loc) ==
    IF loc.at = "start"
    THEN test_resolving(h, obj, to_last_turn(h, obj, operation.path, to_last_begin(obj)))
    ELSE IF loc.at = "to_last"
    THEN test_resolving(h, obj, to_last_turn(h, obj, operation.path, loc.tl))
    ELSE IF loc.at = "walk"
    THEN test_walk(h, obj, loc.tl, walk(h, loc.tl.sub, loc.tl.tok))
    ELSE test_value(h, obj, operation, val_of(loc.value))

\* copy.deepcopy of the item took a step m: it raised, or made the copy
\* value and the addition of it is next, or is at the next turn of a loop
copy_value(obj, m) ==
    IF m.err # NoErr
    THEN Raises(m.h, obj, m.err)
    ELSE IF m.done
    THEN GoOn(m.h, obj, "add", NoPart, m.s)
    ELSE [h |-> m.h, obj |-> obj, err |-> NoErr,
          loc |-> [at |-> "copy", tl |-> NoPart, value |-> m.s, cp |-> m.cp]]

\* CopyOperation.apply without the deep copy: the item itself is added
copy_item_shared(h, obj, item) ==
    IF item.err # NoErr
    THEN Raises(h, obj, item.err)
    ELSE GoOn(h, obj, "add", NoPart, item.s)

\* subobj[part] of value = copy.deepcopy(subobj[part]) gave item:
\* copy.deepcopy is entered with it unless the lookup raised
copy_item(h, obj, item) ==
    IF item.err # NoErr
    THEN Raises(h, obj, item.err)
    ELSE copy_value(obj, copy_begin(h, item.s))

\* CopyOperation.apply from the frame loc: from_ptr.to_last, the lookup
\* of the item, the deep copy of it turn by turn, then AddOperation.apply
CopyOperation_apply(h, obj, operation, loc) ==
    IF loc.at = "start"
    THEN IF ~operation.hasFrom
         THEN Raises(h, obj, "InvalidJsonPatch")
         ELSE resolving(h, obj, "to_last", "value", NumSlot(0),
                        to_last_turn(h, obj, operation.from, to_last_begin(obj)))
    ELSE IF loc.at = "to_last"
    THEN resolving(h, obj, "to_last", "value", NumSlot(0),
                   to_last_turn(h, obj, operation.from, loc.tl))
    ELSE IF loc.at = "value"
    THEN copy_item(h, obj, getitem(h, loc.tl))
    ELSE IF loc.at = "copy"
    THEN copy_value(obj, copy_turn(h, loc.cp))
    ELSE add_value(h, obj, operation.path, loc)

\* the classes JsonPatch.operations names
OpNames == {"remove", "add", "replace", "move", "test", "copy"}

\* the next step of operation.apply(obj), of the class that
\* _get_operation chose, from the frame loc
Operation_apply(h, obj, operation, loc) ==
    CASE operation.op = "remove" -> RemoveOperation_apply(h, obj, operation, loc)
      [] operation.op = "add" -> AddOperation_apply(h, obj, operation, loc)
      [] operation.op = "replace" -> ReplaceOperation_apply(h, obj, operation, loc)
      [] operation.op = "move" -> MoveOperation_apply(h, obj, operation, loc)
      [] operation.op = "test" -> TestOperation_apply(h, obj, operation, loc)
      [] operation.op = "copy" -> CopyOperation_apply(h, obj, operation, loc)

RECURSIVE apply_steps(_, _, _, _)
\* operation.apply(obj) with no other thread between its steps, m being
\* what the last step did
apply_on(operation, m) ==
    IF m.err # NoErr \/ m.loc = Over
    THEN R(m.h, m.obj, m.err)
    ELSE apply_steps(m.h, m.obj, operation, m.loc)

apply_steps(h, obj, operation, loc) ==
    apply_on(operation, Operation_apply(h, obj, operation, loc))

\* operation.apply(obj) as one thread runs it
apply_operation(h, obj, operation) == apply_steps(h, obj, operation, Start)

(* --------------------------- JsonPatch -------------------------------- *)
\* _get_operation: the check of one operation record
get_operation(operation) ==
    IF operation.opm = "missing" THEN "InvalidJsonPatch"
    ELSE IF operation.opm # "str" THEN "InvalidJsonPatch"
    ELSE IF operation.op \notin OpNames THEN "InvalidJsonPatch"
    ELSE NoErr

\* _ops checking no record but the first before the loop starts
ops_first_only(p) ==
    IF p # <<>> /\ get_operation(p[1]) # NoErr
    THEN "InvalidJsonPatch"
    ELSE NoErr

\* the property _ops: every record of the patch goes through
\* _get_operation before the first operation is applied
ops_(p) ==
    IF \E i \in 1..Len(p) : get_operation(p[i]) # NoErr
    THEN "InvalidJsonPatch"
    ELSE NoErr

RECURSIVE apply_from(_, _, _, _)
\* the loop of JsonPatch.apply after operation i gave r: the first
\* exception ends it, with the heap as it was left
apply_next(p, i, r) ==
    IF r.err # NoErr THEN r ELSE apply_from(r.h, r.obj, p, i + 1)

apply_from(h, obj, p, i) ==
    IF i > Len(p)
    THEN R(h, obj, NoErr)
    ELSE apply_next(p, i, apply_operation(h, obj, p[i]))

apply_start(p, start) ==
    IF ops_(p) # NoErr
    THEN R(start.h, start.s, ops_(p))
    ELSE apply_from(start.h, start.s, p, 1)

\* JsonPatch.apply(obj, in_place) as one call
JsonPatch_apply(h, obj, p, in_place) ==
    apply_start(p, IF in_place THEN [h |-> h, s |-> obj] ELSE deepcopy(h, obj))

\* operation.items(): the members the operation dict has, each with its
\* value: a string, a pointer string (its tokens) or a JSON value
items(h, operation) ==
    (IF operation.opm = "missing" THEN {}
     ELSE {<<"op", [kind |-> operation.opm, toks |-> <<operation.op>>, json |-> NoValue]>>})
    \cup {<<"path", [kind |-> "str", toks |-> operation.path, json |-> NoValue]>>}
    \cup (IF operation.hasValue
          THEN {<<"value", [kind |-> "json", toks |-> <<>>,
                           json |-> Plain(deref(h, operation.value))]>>}
          ELSE {})
    \cup (IF operation.hasFrom
          THEN {<<"from", [kind |-> "str", toks |-> operation.from, json |-> NoValue]>>}
          ELSE {})

\* the result of a hash or a comparison: the value v, or the exception
HR(err, v) == [err |-> err, v |-> v]

\* hash(n) of an int: the number itself, but -2 for -1, which CPython
\* keeps for a failure (for numbers below 2**61 - 1)
hash_int(n) == IF n = -1 THEN -2 ELSE n

\* hash((key, value)) of an item: a function of the hashes of the two,
\* and modelled by them; the hash of a string is modelled by the string
\* (the number CPython gives it changes from process to process)
hash_item(item) ==
    <<item[1], [item[2] EXCEPT !.json = IF @.t = "num" THEN Num(hash_int(@.n)) ELSE @]>>

\* PatchOperation.__hash__: the hash of the frozenset of the items, which
\* is a function of the hashes of the items and is modelled by the set of
\* them; a dict or a list as value has no hash
PatchOperation_hash(h, operation) ==
    IF operation.hasValue /\ operation.value.t = "ref"
    THEN HR("TypeError", {})
    ELSE HR(NoErr, {hash_item(item) : item \in items(h, operation)})

\* PatchOperation.__eq__: the operation dicts are equal
PatchOperation_eq(h, a, b) == items(h, a) = items(h, b)

\* JsonPatch.__hash__: the hash of the tuple of the operations
JsonPatch_hash(h, p) ==
    IF ops_(p) # NoErr
    THEN HR(ops_(p), <<>>)
    ELSE IF \E i \in 1..Len(p) : PatchOperation_hash(h, p[i]).err # NoErr
    THEN HR("TypeError", <<>>)
    ELSE HR(NoErr, [i \in 1..Len(p) |-> PatchOperation_hash(h, p[i]).v])

\* JsonPatch.__eq__: the tuples of the operations are equal
JsonPatch_eq(h, p, q) ==
    IF ops_(p) # NoErr \/ ops_(q) # NoErr
    THEN HR("InvalidJsonPatch", FALSE)
    ELSE HR(NoErr, /\ Len(p) = Len(q)
                   /\ \A i \in 1..Len(p) : PatchOperation_eq(h, p[i], q[i]))

RECURSIVE allocPatch(_, _, _)
\* the patch as a list of dicts holding their value objects
allocOp(tp, acc, a) ==
    allocPatch(a.h, Tail(tp), Append(acc, [Head(tp) EXCEPT !.value = a.s]))

allocPatch(h, tp, acc) ==
    IF tp = <<>>
    THEN [h |-> h, p |-> acc]
    ELSE allocOp(tp, acc, alloc(h, Head(tp).value))

\* the patch by structure: each record with its value as a tree
derefPatch(h, p) == [i \in 1..Len(p) |-> [p[i] EXCEPT !.value = deref(h, p[i].value)]]

(* ----------------------- the diff: from_diff -------------------------- *)
\* The diff reads src and dst by structure and builds operation records
\* whose values are members of src and dst: here their trees.  A result is
\* the list of operations, or the exception that ended the generator.
D(err, ops) == [err |-> err, ops |-> ops]

NoOps == D(NoErr, <<>>)

\* the operations of a, then those of b: the first exception wins
Cat(a, b) ==
    IF a.err # NoErr THEN a
    ELSE IF b.err # NoErr THEN b
    ELSE D(NoErr, a.ops \o b.ops)

TreeHasKey(v, k) == HasKey(v.c, k)

TreeAt(v, k) == v.c[KeyAt(v.c, k)].v

\* the elements of a list, in order
Elems(v) == [i \in 1..Len(v.c) |-> v.c[i].v]

RECURSIVE matrix(_, _, _, _)
\* matrix[i][j] as the loop of _longest_common_subseq fills it (i and j
\* count from 0): the length of the common run ending at src[i], dst[j]
matrix(src, dst, i, j) ==
    IF Same(src[i + 1], dst[j + 1])
    THEN IF i = 0 \/ j = 0 THEN 1 ELSE matrix(src, dst, i - 1, j - 1) + 1
    ELSE 0

\* one turn of the loop, at (i, j) with m = matrix[i][j]: z grows to m,
\* and the ranges move to every match of the longest length so far
lcs_turn(acc, i, j, m) ==
    IF m = 0
    THEN acc
    ELSE IF m >= acc.z
    THEN [z |-> m, none |-> FALSE, x |-> <<i - m + 1, i + 1>>,
          y |-> <<j - m + 1, j + 1>>]
    ELSE acc

RECURSIVE lcs_loop(_, _, _, _)
\* the loop over itertools.product(range(lsrc), range(ldst)) from its
\* k-th pair on
lcs_loop(src, dst, k, acc) ==
    IF k >= Len(src) * Len(dst)
    THEN acc
    ELSE lcs_loop(src, dst, k + 1,
                  lcs_turn(acc, k \div Len(dst), k % Len(dst),
                           matrix(src, dst, k \div Len(dst), k % Len(dst))))

\* _longest_common_subseq: the ranges of the longest common run in src
\* and in dst, or none
longest_common_subseq(src, dst) ==
    lcs_loop(src, dst, 0, [z |-> 0, none |-> TRUE, x |-> <<0, 0>>, y |-> <<0, 0>>])

\* what _split_by_common_seq returns: None, a range (a tuple), or the
\* list of a left and a right part
SNone == [k |-> "none", r |-> <<0, 0>>, kids |-> <<>>]

SRange(r) == [k |-> "range", r |-> r, kids |-> <<>>]

SNode(l, r) == [k |-> "node", r |-> <<0, 0>>, kids |-> <<l, r>>]

\* bx if bx[0] != bx[1] else None
range_or_none(b) == IF b[1] # b[2] THEN SRange(b) ELSE SNone

RECURSIVE split_by_common_seq(_, _, _, _)
\* the two recursive calls, around the common run (x in src, y in dst)
split_around(src, dst, bx, by, c) ==
    IF c.none
    THEN SNode(range_or_none(bx), range_or_none(by))
    ELSE SNode(split_by_common_seq(SubSeq(src, 1, c.x[1]), SubSeq(dst, 1, c.y[1]),
                                   <<bx[1], bx[1] + c.x[1]>>,
                                   <<by[1], by[1] + c.y[1]>>),
               split_by_common_seq(SubSeq(src, c.x[2] + 1, Len(src)),
                                   SubSeq(dst, c.y[2] + 1, Len(dst)),
                                   <<bx[1] + c.x[2], bx[1] + Len(src)>>,
                                   <<by[1] + c.y[2], by[1] + Len(dst)>>))

split_by_common_seq(src, dst, bx, by) ==
    IF src = <<>>
    THEN SNode(SNone, range_or_none(by))
    ELSE IF dst = <<>>
    THEN SNode(range_or_none(bx), SNone)
    ELSE split_around(src, dst, bx, by, longest_common_subseq(src, dst))

\* the operations of a side and the index shift after them
Shifted(ops, shift) == [ops |-> ops, shift |-> shift]

RECURSIVE compare_left_from(_, _, _, _, _, _)
\* the loop of _compare_left over reversed(range(first, last + 1)) from
\* idx on, shift being the shift as decremented so far
compare_left_from(path, src, first, idx, shift, acc) ==
    IF idx < first
    THEN Shifted(acc, shift)
    ELSE compare_left_from(path, src, first, idx - 1, shift - 1,
             Append(acc, MkOp("remove", Append(path, str(idx)), TRUE,
                              src[idx - shift + 1], FALSE, <<>>)))

\* _compare_left with the shift forgotten: the removals at the indices
\* src had at the start
compare_left_unshifted(path, src, left, shift) ==
    compare_left_from(path, src, left[1],
                      (IF left[2] = -1 THEN Len(src) ELSE left[2]) - 1, 0, <<>>)

\* _compare_left: the removals of src[start:end], from the tail
compare_left(path, src, left, shift) ==
    compare_left_from(path, src, left[1] + shift,
                      (IF left[2] = -1 THEN Len(src) ELSE left[2]) + shift - 1,
                      shift, <<>>)

RECURSIVE compare_right_from(_, _, _, _, _, _)
compare_right_from(path, dst, idx, end, shift, acc) ==
    IF idx >= end
    THEN Shifted(acc, shift)
    ELSE compare_right_from(path, dst, idx + 1, end, shift + 1,
             Append(acc, MkOp("add", Append(path, str(idx)), TRUE, dst[idx + 1],
                              FALSE, <<>>)))

\* _compare_right: the additions of dst[start:end]
compare_right(path, dst, right, shift) ==
    compare_right_from(path, dst, right[1],
                       IF right[2] = -1 THEN Len(dst) ELSE right[2], shift, <<>>)

RECURSIVE compare_with_shift(_, _, _, _, _, _)
\* the right side, after the left side gave l
compare_right_side(path, src, dst, right, l) ==
    IF right.k = "node"
    THEN compare_with_shift(path, src, dst, right.kids[1], right.kids[2], l.shift)
    ELSE IF right.k = "range"
    THEN compare_right(path, dst, right.r, l.shift)
    ELSE Shifted(<<>>, l.shift)

compare_left_side(path, src, dst, left, shift) ==
    IF left.k = "node"
    THEN compare_with_shift(path, src, dst, left.kids[1], left.kids[2], shift)
    ELSE IF left.k = "range"
    THEN compare_left(path, src, left.r, shift)
    ELSE Shifted(<<>>, shift)

both_sides(l, r) == Shifted(l.ops \o r.ops, r.shift)

after_left(path, src, dst, right, l) ==
    both_sides(l, compare_right_side(path, src, dst, right, l))

compare_with_shift(path, src, dst, left, right, shift) ==
    after_left(path, src, dst, right, compare_left_side(path, src, dst, left, shift))

\* _compare: the operations of _compare_with_shift from shift 0, s being
\* what _split_by_common_seq returned
compare_split(path, src, dst, s) ==
    compare_with_shift(path, src, dst, s.kids[1], s.kids[2], 0).ops

compare(path, src, dst) ==
    compare_split(path, src, dst, split_by_common_seq(src, dst, <<0, -1>>, <<0, -1>>))

\* _optimize_using_move: prev_item becomes the move of the pair
optimize_using_move(prev_item, item) ==
    IF item.op = "add"
    THEN [prev_item EXCEPT !.op = "move", !.hasFrom = TRUE, !.from = prev_item.path,
                           !.path = item.path]
    ELSE [prev_item EXCEPT !.op = "move", !.hasFrom = TRUE,
              !.from = Append(SubSeq(item.path, 1, Len(item.path) - 1),
                              str(int(item.path[Len(item.path)]) - 1)),
              !.path = prev_item.path]

\* patch.patch[0]['path'].split('/')[1] in prev['value']
first_token_in(sub, value) ==
    IF IsTreeMap(value) THEN TreeHasKey(value, sub.path[1]) ELSE FALSE

\* the end of _optimize_using_replace, patch being the recursive patch
replace_refined(prev, cur, patch) ==
    IF patch.err # NoErr
    THEN [err |-> patch.err, item |-> prev]
    ELSE IF /\ Len(patch.ops) = 1
            /\ patch.ops[1].op # "remove"
            /\ patch.ops[1].path # <<>>
            /\ first_token_in(patch.ops[1], prev.value)
    THEN [err |-> NoErr,
          item |-> [prev EXCEPT !.op = "replace", !.path = @ \o patch.ops[1].path,
                                !.value = patch.ops[1].value]]
    ELSE [err |-> NoErr, item |-> [prev EXCEPT !.op = "replace", !.value = cur.value]]

RECURSIVE make_patch(_, _)
\* the recursive patch: make_patch(prev, cur), remade as
\* make_patch(cur, prev) when prev is a dict with one key that cur has
replace_patch(prev, cur, patch) ==
    IF patch.err # NoErr
    THEN patch
    ELSE IF /\ IsTreeMap(prev.value) /\ IsTreeMap(cur.value)
            /\ Len(prev.value.c) = 1
            /\ TreeHasKey(cur.value, prev.value.c[1].key)
    THEN make_patch(cur.value, prev.value)
    ELSE patch

\* _optimize_using_replace: prev becomes a replace
optimize_using_replace(prev, cur) ==
    IF cur.op = "add"
    THEN replace_refined(prev, cur,
                         replace_patch(prev, cur, make_patch(prev.value, cur.value)))
    ELSE [err |-> NoErr, item |-> [prev EXCEPT !.op = "replace"]]

\* ops_by_path and ops_by_value: the item of a key is an index of result
MapHas(m, key) == \E e \in m : e.key = key

MapGet(m, key) == (CHOOSE e \in m : e.key = key).i

MapPut(m, key, i) == {e \in m : e.key # key} \cup {[key |-> key, i |-> i]}

MapPop(m, key) == {e \in m : e.key # key}

\* not isinstance(item['value'], (MutableMapping, MutableSequence))
hashable_value(item) == item.value.t = "num"

\* the state of the loop of _optimize, before its first turn
OptStart == [err |-> NoErr, result |-> <<>>, by_path |-> {}, by_value |-> {}]

\* the turn that replaced: the item at index i is now what r gave
opt_replaced(st, i, r) ==
    IF r.err # NoErr
    THEN [st EXCEPT !.err = r.err]
    ELSE [st EXCEPT !.result = [@ EXCEPT ![i] = r.item]]

\* one turn of the loop of _optimize
optimize_turn(st, item) ==
    IF MapHas(st.by_path, item.path)
    THEN opt_replaced(st, MapGet(st.by_path, item.path),
             optimize_using_replace(st.result[MapGet(st.by_path, item.path)], item))
    ELSE IF /\ hashable_value(item)
            /\ MapHas(st.by_value, item.value.n)
            /\ {item.op, st.result[MapGet(st.by_value, item.value.n)].op}
                   = {"add", "remove"}
    THEN [st EXCEPT
             !.result = [@ EXCEPT ![MapGet(st.by_value, item.value.n)] =
                            optimize_using_move(@, item)],
             !.by_value = MapPop(@, item.value.n)]
    ELSE [st EXCEPT
             !.result = Append(@, item),
             !.by_path = MapPut(@, item.path, Len(st.result) + 1),
             !.by_value = IF hashable_value(item)
                          THEN MapPut(@, item.value.n, Len(st.result) + 1)
                          ELSE @]

RECURSIVE optimize_loop(_, _, _)
optimize_loop(operations, k, st) ==
    IF k > Len(operations) \/ st.err # NoErr
    THEN st
    ELSE optimize_loop(operations, k + 1, optimize_turn(st, operations[k]))

\* the cleanup of _optimize: a remove loses its value
strip(item) ==
    IF item.op = "remove" THEN [item EXCEPT !.hasValue = FALSE, !.value = NoValue]
    ELSE item

optimized(st) ==
    IF st.err # NoErr
    THEN D(st.err, <<>>)
    ELSE D(NoErr, [i \in 1..Len(st.result) |-> strip(st.result[i])])

\* _optimize
optimize(operations) == optimized(optimize_loop(operations, 1, OptStart))

\* _compare_lists
compare_lists(path, src, dst, optimization) ==
    IF optimization
    THEN optimize(compare(path, Elems(src), Elems(dst)))
    ELSE D(NoErr, compare(path, Elems(src), Elems(dst)))

RECURSIVE compare_values(_, _, _, _)
RECURSIVE dict_src_loop(_, _, _, _, _)
\* the first loop of compare_dicts, from the i-th key of src on: the keys
\* of a dict are visited in insertion order
dict_src_loop(path, src, dst, i, optimization) ==
    IF i > Len(src.c)
    THEN NoOps
    ELSE Cat(IF ~TreeHasKey(dst, src.c[i].key)
             THEN D(NoErr, <<MkOp("remove", Append(path, src.c[i].key), FALSE,
                                  NoValue, FALSE, <<>>)>>)
             ELSE compare_values(Append(path, src.c[i].key), src.c[i].v,
                                 TreeAt(dst, src.c[i].key), optimization),
             dict_src_loop(path, src, dst, i + 1, optimization))

RECURSIVE dict_dst_loop(_, _, _, _)
\* the second loop of compare_dicts adding every key of dst, also those
\* src has
dict_dst_loop_every_key(path, src, dst, i) ==
    IF i > Len(dst.c)
    THEN <<>>
    ELSE <<MkOp("add", Append(path, dst.c[i].key), TRUE, dst.c[i].v, FALSE, <<>>)>>
         \o dict_dst_loop(path, src, dst, i + 1)

\* the second loop of compare_dicts, from the i-th key of dst on
dict_dst_loop(path, src, dst, i) ==
    IF i > Len(dst.c)
    THEN <<>>
    ELSE (IF ~TreeHasKey(src, dst.c[i].key)
          THEN <<MkOp("add", Append(path, dst.c[i].key), TRUE, dst.c[i].v,
                      FALSE, <<>>)>>
          ELSE <<>>) \o dict_dst_loop(path, src, dst, i + 1)

compare_dicts(path, src, dst, optimization) ==
    Cat(dict_src_loop(path, src, dst, 1, optimization),
        D(NoErr, dict_dst_loop(path, src, dst, 1)))

\* compare_values without the return for equal values
compare_values_always(path, value, other, optimization) ==
    IF IsTreeMap(value) /\ IsTreeMap(other)
    THEN compare_dicts(path, value, other, optimization)
    ELSE IF IsTreeSeq(value) /\ IsTreeSeq(other)
    THEN compare_lists(path, value, other, optimization)
    ELSE D(NoErr, <<MkOp("replace", path, TRUE, other, FALSE, <<>>)>>)

compare_values(path, value, other, optimization) ==
    IF Same(value, other)
    THEN NoOps
    ELSE IF IsTreeMap(value) /\ IsTreeMap(other)
    THEN compare_dicts(path, value, other, optimization)
    ELSE IF IsTreeSeq(value) /\ IsTreeSeq(other)
    THEN compare_lists(path, value, other, optimization)
    ELSE D(NoErr, <<MkOp("replace", path, TRUE, other, FALSE, <<>>)>>)

\* JsonPatch.from_diff
from_diff(src, dst, optimization) == compare_values(<<>>, src, dst, optimization)

\* patch.apply(src) inside make_patch, read by structure: the document
\* is copied, and the values of the records, members of src and of dst in
\* the code, are taken as objects of their own, since no operation of a
\* patch the diff makes reaches into a value another one carries
applied_to(a, b) == JsonPatch_apply(b.h, a.s, b.p, FALSE)

applied_doc(tp, a) == applied_to(a, allocPatch(a.h, tp, <<>>))

apply_tree(src, tp) == applied_doc(tp, alloc(<<>>, src))

\* the end of make_patch, r being what patch.apply(src) did
make_patch_checked(src, dst, patch, r) ==
    IF r.err # NoErr
    THEN D(r.err, <<>>)
    ELSE IF ~Same(deref(r.h, r.obj), dst)
    THEN from_diff(src, dst, FALSE)
    ELSE patch

make_patch_from(src, dst, patch) ==
    IF patch.err # NoErr
    THEN patch
    ELSE make_patch_checked(src, dst, patch, apply_tree(src, patch.ops))

make_patch(src, dst) == make_patch_from(src, dst, from_diff(src, dst, TRUE))

(* ------------------------- bounded inputs ----------------------------- *)
SeqsUpTo(S, n) == UNION {[1..k -> S] : k \in 0..n}

Scalars == {Num(n) : n \in 1..MaxNum}

ScalarArrs == {Arr(s) : s \in SeqsUpTo(Scalars, MaxLen)}

\* the members nested documents are built from
Members == {Num(1), Arr(<<>>), Arr(<<Num(1)>>), EmptyObj, Obj1("b", Num(1))}

\* the documents given to apply: scalars, arrays of scalars, objects and
\* arrays with a member that is itself a container
Docs ==
    Scalars \cup ScalarArrs
    \cup {EmptyObj, Obj2("a", Num(1), "b", Num(2)), Obj1("a", Arr(<<Num(1), Num(2)>>))}
    \cup {Obj1("a", v) : v \in Members}
    \cup {Arr(<<v, w>>) : v \in {Arr(<<>>), Arr(<<Num(1)>>), Obj1("b", Num(1))},
                          w \in {Num(2), Arr(<<>>)}}

\* reference tokens: keys, the end-of-list marker, and the indices up to
\* one past the longest array's length
PathToks == {"a", "b", "-"} \cup {str(i) : i \in 0..(MaxLen + 1)}

Paths == SeqsUpTo(PathToks, 2)

FromToks == {"a", "0", "1"}

FromPaths == SeqsUpTo(FromToks, 2)

\* the values operations carry
OpVals == {Num(1), Arr(<<Num(1)>>), EmptyObj}

\* the operations of one-operation patches
Ops ==
    {MkOp("add", p, TRUE, v, FALSE, <<>>) : p \in Paths, v \in OpVals}
    \cup {MkOp("replace", p, TRUE, v, FALSE, <<>>) : p \in Paths, v \in OpVals}
    \cup {MkOp("test", p, TRUE, v, FALSE, <<>>) : p \in Paths, v \in OpVals}
    \cup {MkOp("test", p, FALSE, NoValue, FALSE, <<>>) : p \in Paths}
    \cup {MkOp("remove", p, FALSE, NoValue, FALSE, <<>>) : p \in Paths}
    \cup {MkOp(o, p, FALSE, NoValue, TRUE, f) : o \in {"move", "copy"}, p \in Paths,
                                              f \in FromPaths}
    \cup {MkOp(o, <<"a">>, FALSE, NoValue, FALSE, <<>>) :
              o \in {"add", "replace", "move", "copy"}}

\* records that are no operation: op unknown, missing, or not a string
BadOps ==
    {MkOp("bogus", <<"a">>, TRUE, Num(1), FALSE, <<>>),
     [MkOp("add", <<"a">>, TRUE, Num(1), FALSE, <<>>) EXCEPT !.opm = "missing"],
     [MkOp("add", <<"a">>, TRUE, Num(1), FALSE, <<>>) EXCEPT !.opm = "int"]}

\* the operations longer patches are made of
SeqOps ==
    {MkOp("add", <<"a">>, TRUE, Arr(<<Num(1)>>), FALSE, <<>>),
     MkOp("add", <<"a">>, TRUE, EmptyObj, FALSE, <<>>),
     MkOp("add", <<"a", "-">>, TRUE, Num(2), FALSE, <<>>),
     MkOp("add", <<"a", "b">>, TRUE, Num(2), FALSE, <<>>),
     MkOp("add", <<"0">>, TRUE, Arr(<<Num(1)>>), FALSE, <<>>),
     MkOp("add", <<"0", "0">>, TRUE, Num(2), FALSE, <<>>),
     MkOp("add", <<>>, TRUE, Arr(<<Num(1)>>), FALSE, <<>>),
     MkOp("replace", <<"a">>, TRUE, Arr(<<Num(1)>>), FALSE, <<>>),
     MkOp("replace", <<>>, TRUE, EmptyObj, FALSE, <<>>),
     MkOp("remove", <<"a">>, FALSE, NoValue, FALSE, <<>>),
     MkOp("remove", <<"a", "0">>, FALSE, NoValue, FALSE, <<>>),
     MkOp("remove", <<"0">>, FALSE, NoValue, FALSE, <<>>),
     MkOp("move", <<"b">>, FALSE, NoValue, TRUE, <<"a">>),
     MkOp("copy", <<"b">>, FALSE, NoValue, TRUE, <<"a">>),
     MkOp("test", <<"a">>, TRUE, Arr(<<Num(1)>>), FALSE, <<>>)}
    \cup BadOps

\* the patches given to apply
Patches ==
    {<<>>} \cup {<<o>> : o \in Ops \cup BadOps}
    \cup UNION {[1..k -> SeqOps] : k \in 2..MaxOps}


\* a patch whose second operation puts a value into the value of the
\* first, so that from the second call on the array at /a holds one
\* object twice when it is copied
SharingPatch ==
    <<MkOp("add", <<"a">>, TRUE, Arr(<<>>), FALSE, <<>>),
      MkOp("add", <<"a", "0">>, TRUE, Arr(<<Num(1)>>), FALSE, <<>>),
      MkOp("copy", <<"b">>, FALSE, NoValue, TRUE, <<"a">>),
      MkOp("add", <<"b", "0", "0">>, TRUE, Num(2), FALSE, <<>>)>>

\* the array [[1, 1], [2, 2]], a value of the patches below
Pairs == Arr(<<Arr(<<Num(1), Num(1)>>), Arr(<<Num(2), Num(2)>>)>>)

\* a patch with a pointer of four steps: a thread that is switched out
\* inside to_last, at /a/b, goes on from that object after the other has
\* moved it to /b and replaced its member a by the value of operation 4
DetachingPatch ==
    <<MkOp("add", <<"a">>, TRUE, Obj1("b", Obj1("a", Obj1("b", Num(1)))), FALSE, <<>>),
      MkOp("remove", <<"a", "b", "a", "b">>, FALSE, NoValue, FALSE, <<>>),
      MkOp("move", <<"b">>, FALSE, NoValue, TRUE, <<"a", "b">>),
      MkOp("replace", <<"b", "a">>, TRUE, Obj1("b", Num(2)), FALSE, <<>>)>>

\* the array [[1], [2]] and the dict {"a": [1], "b": [2]}
Singles == Arr(<<Arr(<<Num(1)>>), Arr(<<Num(2)>>)>>)

SinglesObj == Obj2("a", Arr(<<Num(1)>>), "b", Arr(<<Num(2)>>))

\* patches whose copy operation copies a value object of the patch that
\* the last operation of the other call writes into: a thread that is
\* switched out inside copy.deepcopy finds the list shorter or longer, or
\* the dict of another size or with other entries, at the next turn
TearingPatches ==
    {<<MkOp("add", <<"a">>, TRUE, Singles, FALSE, <<>>),
       MkOp("copy", <<"b">>, FALSE, NoValue, TRUE, <<"a">>),
       MkOp("remove", <<"a", "0">>, FALSE, NoValue, FALSE, <<>>)>>,
     <<MkOp("add", <<"a">>, TRUE, SinglesObj, FALSE, <<>>),
       MkOp("copy", <<"b">>, FALSE, NoValue, TRUE, <<"a">>),
       MkOp("remove", <<"a", "a">>, FALSE, NoValue, FALSE, <<>>)>>,
     <<MkOp("add", <<"a">>, TRUE, Singles, FALSE, <<>>),
       MkOp("copy", <<"b">>, FALSE, NoValue, TRUE, <<"a">>),
       MkOp("add", <<"a", "0">>, TRUE, Arr(<<Num(3)>>), FALSE, <<>>)>>,
     <<MkOp("add", <<"a">>, TRUE, SinglesObj, FALSE, <<>>),
       MkOp("copy", <<"b">>, FALSE, NoValue, TRUE, <<"a">>),
       MkOp("move", <<"a", "0">>, FALSE, NoValue, TRUE, <<"a", "a">>)>>}

\* patches whose first operation puts one value object of the patch into
\* the document of every call, and whose later operations write into it:
\* a thread that is switched out between the resolution of a pointer and
\* its del, insert or assignment finds the object changed by the other
RacingPatches ==
    {<<MkOp("add", <<"a">>, TRUE, Pairs, FALSE, <<>>),
       MkOp("remove", <<"a", "0", "0">>, FALSE, NoValue, FALSE, <<>>),
       MkOp("add", <<"a", "0">>, TRUE, Arr(<<Num(3)>>), FALSE, <<>>)>>,
     <<MkOp("add", <<"a">>, TRUE, Arr(<<Num(1), Num(2)>>), FALSE, <<>>),
       MkOp("remove", <<"a", "0">>, FALSE, NoValue, FALSE, <<>>),
       MkOp("add", <<"a", "1">>, TRUE, Num(3), FALSE, <<>>)>>,
     <<MkOp("add", <<"a">>, TRUE, Obj1("a", Num(1)), FALSE, <<>>),
       MkOp("replace", <<"a", "a">>, TRUE, Num(2), FALSE, <<>>),
       MkOp("remove", <<"a", "a">>, FALSE, NoValue, FALSE, <<>>)>>,
     <<MkOp("add", <<"a">>, TRUE, Pairs, FALSE, <<>>),
       MkOp("move", <<"b">>, FALSE, NoValue, TRUE, <<"a", "0">>)>>,
     <<MkOp("add", <<"a">>, TRUE, Pairs, FALSE, <<>>),
       MkOp("remove", <<"a", "0", "0">>, FALSE, NoValue, FALSE, <<>>),
       MkOp("move", <<"b">>, FALSE, NoValue, TRUE, <<"a", "0">>)>>,
     <<MkOp("add", <<"a">>, TRUE, Obj1("a", Num(1)), FALSE, <<>>),
       MkOp("replace", <<"a", "a">>, TRUE, Num(2), FALSE, <<>>),
       MkOp("move", <<"a", "b">>, FALSE, NoValue, TRUE, <<"a", "a">>)>>,
     <<MkOp("add", <<"a">>, TRUE, Arr(<<Num(1), Num(2)>>), FALSE, <<>>),
       MkOp("move", <<"b">>, FALSE, NoValue, TRUE, <<"a", "0">>),
       MkOp("add", <<"a", "1">>, TRUE, Num(3), FALSE, <<>>)>>,
     DetachingPatch}

\* the documents two calls share: {}, {"a": [1, 2]}, [[1], 2] and 1
SharedDocs ==
    {EmptyObj, Obj1("a", Arr(<<Num(1), Num(2)>>)), Arr(<<Arr(<<Num(1)>>), Num(2)>>),
     Num(1)}

\* the patches two calls share
SharedPatches ==
    UNION {[1..k -> SeqOps] : k \in 1..MaxOps} \cup {SharingPatch} \cup RacingPatches

\* the documents that are diffed: arrays of numbers, arrays with members
\* that are containers, objects, also with their keys in another order,
\* and a number
DiffNums == {Num(n) : n \in 1..MaxDiffNum}

DiffMembers ==
    {Num(1), Num(2), Arr(<<Num(1)>>), Arr(<<Num(1), Num(2)>>), Obj1("a", Num(1)),
     Obj1("a", Num(2)), Obj2("a", Num(1), "b", Num(2)),
     Obj2("b", Num(2), "a", Num(1))}

DiffDocs ==
    {Arr(s) : s \in SeqsUpTo(DiffNums, MaxDiffLen)}
    \cup {Arr(s) : s \in SeqsUpTo(DiffMembers, MaxDiffLen - 1)}
    \cup {Obj1(k, v) : k \in {"a", "b"}, v \in DiffMembers}
    \cup {Obj2("a", v, "b", w) : v \in {Num(1), Arr(<<Num(1)>>)},
                                 w \in {Num(2), Arr(<<Num(2), Num(1)>>)}}
    \cup {Obj2("b", w, "a", Num(1)) : w \in {Num(2), Arr(<<Num(2), Num(1)>>)}}
    \cup {Num(1)}

\* the operations of the patches that are hashed and compared: -1 and -2
\* are two numbers with one hash
HashOps ==
    {MkOp("add", <<"a">>, TRUE, Num(1), FALSE, <<>>),
     MkOp("add", <<"a">>, TRUE, Arr(<<Num(1)>>), FALSE, <<>>),
     MkOp("add", <<"a">>, TRUE, EmptyObj, FALSE, <<>>),
     MkOp("add", <<"a">>, TRUE, Num(-1), FALSE, <<>>),
     MkOp("add", <<"a">>, TRUE, Num(-2), FALSE, <<>>),
     MkOp("test", <<"a">>, TRUE, Num(1), FALSE, <<>>),
     MkOp("remove", <<"a">>, FALSE, NoValue, FALSE, <<>>),
     MkOp("move", <<"b">>, FALSE, NoValue, TRUE, <<"a">>),
     MkOp("bogus", <<"a">>, TRUE, Num(1), FALSE, <<>>)}

HashPatches == UNION {[1..k -> HashOps] : k \in 0..MaxOps}

(* ------------------------- the state machine -------------------------- *)
VARIABLES
    heap,    \* the objects: a sequence of cells, an address is an index
    doc,     \* the caller's document (a slot)
    patch,   \* the patch object: operation records holding value slots
    calls,   \* per call of JsonPatch.apply, a thread: in_place, obj, pc (the
             \* operation it is at), loc (the frame of that operation, or
             \* of the copy of the document), status, result
    given,   \* the document and the patch as they were given (trees)
    diff,    \* the documents a patch was synthesised from, and how
    cmp      \* a second patch object, and the hashes and the comparison made

vars == <<heap, doc, patch, calls, given, diff, cmp>>

Idle(in_place) ==
    [in_place |-> in_place, obj |-> NumSlot(0), pc |-> 0, loc |-> Start,
     status |-> "idle", result |-> Num(0)]

NoDiff ==
    [src |-> Num(0), dst |-> Num(0), obj |-> NumSlot(0), how |-> "given",
     err |-> NoErr]

\* no second patch, nothing hashed or compared
NoCmp ==
    [other |-> <<>>, hashed |-> FALSE, self |-> HR(NoErr, <<>>),
     that |-> HR(NoErr, <<>>), compared |-> FALSE, eq |-> HR(NoErr, FALSE)]

\* the heap a holds the document and b the patch too
InitHeap(d, tp, ids, in_places, df, a, b) ==
    /\ heap = b.h
    /\ doc = a.s
    /\ patch = b.p
    /\ calls = [c \in ids |-> Idle(in_places[c])]
    /\ given = [doc |-> d, patch |-> tp]
    /\ diff = df
    /\ cmp = NoCmp

InitDoc(d, tp, ids, in_places, df, a) ==
    InitHeap(d, tp, ids, in_places, df, a, allocPatch(a.h, tp, <<>>))

\* a document and a patch are given, and ids are the calls that will be
\* made with them
InitGiven(d, tp, ids, in_places, df) ==
    InitDoc(d, tp, ids, in_places, df, alloc(<<>>, d))

\* the documents src and dst are given, dst as the object obj, and no
\* patch yet
ToDiff(src, dst, obj) ==
    [src |-> src, dst |-> dst, obj |-> obj, how |-> "none", err |-> NoErr]

\* the heap a holds src, the document, and b holds dst too
InitBoth(src, dst, in_place, a, b) ==
    InitHeap(src, <<>>, {1}, [c \in {1} |-> in_place], ToDiff(src, dst, b.s), a,
             [h |-> b.h, p |-> <<>>])

InitSrc(src, dst, in_place, a) == InitBoth(src, dst, in_place, a, alloc(a.h, dst))

\* two patch objects, JsonPatch(tp) in the heap a and JsonPatch(tq) in
\* the heap b, and no call of apply
InitPair(tp, a, b) ==
    /\ heap = b.h
    /\ doc = NumSlot(0)
    /\ patch = a.p
    /\ calls = <<>>
    /\ given = [doc |-> Num(0), patch |-> tp]
    /\ diff = NoDiff
    /\ cmp = [NoCmp EXCEPT !.other = b.p]

InitFirst(tp, tq, a) == InitPair(tp, a, allocPatch(a.h, tq, <<>>))

\* one call with a given patch; or two calls, both with in_place=False,
\* that share a document and a patch, which for the patches that tear a
\* copy is the document {}; or two documents to make a patch
\* from, and one call with that patch on the first document; or two
\* patches to hash and to compare
Init ==
    \/ \E d \in Docs, tp \in Patches, in_place \in BOOLEAN :
           InitGiven(d, tp, {1}, [c \in {1} |-> in_place], NoDiff)
    \/ \E d \in SharedDocs, tp \in SharedPatches :
           InitGiven(d, tp, {1, 2}, [c \in {1, 2} |-> FALSE], NoDiff)
    \/ \E tp \in TearingPatches :
           InitGiven(EmptyObj, tp, {1, 2}, [c \in {1, 2} |-> FALSE], NoDiff)
    \/ \E src \in DiffDocs, dst \in DiffDocs, in_place \in BOOLEAN :
           InitSrc(src, dst, in_place, alloc(<<>>, src))
    \/ \E tp \in HashPatches, tq \in HashPatches :
           InitFirst(tp, tq, allocPatch(<<>>, tp, <<>>))

\* the patch was made: p is the patch object, whose records hold as
\* values the very objects of src and of dst the diff met
Made(how, p) ==
    /\ patch' = p
    /\ given' = [given EXCEPT !.patch = derefPatch(heap, p)]
    /\ diff' = [diff EXCEPT !.how = how]
    /\ UNCHANGED <<heap, doc, calls, cmp>>

\* the records ops with each value as the slot of the object it is
patch_of(ops) == [i \in 1..Len(ops) |-> [ops[i] EXCEPT !.value = slot_of(@)]]

\* the synthesis returned r: a patch, or the exception it raised
Synthesised(how, r) ==
    IF r.err # NoErr
    THEN /\ diff' = [diff EXCEPT !.how = how, !.err = r.err]
         /\ UNCHANGED <<heap, doc, patch, calls, given, cmp>>
    ELSE Made(how, patch_of(r.ops))

\* JsonPatch.from_diff(src, dst, optimization)
FromDiff(optimization) ==
    /\ diff.how = "none"
    /\ Synthesised(IF optimization THEN "optimized" ELSE "raw",
                   from_diff(addressed(heap, doc), addressed(heap, diff.obj),
                             optimization))

\* make_patch(src, dst)
MakePatch ==
    /\ diff.how = "none"
    /\ Synthesised("make_patch",
                   make_patch(addressed(heap, doc), addressed(heap, diff.obj)))

\* the call c has copied the document (start) and checked the patch
Entered(c, start) ==
    /\ heap' = start.h
    /\ calls' = [calls EXCEPT ![c] =
           [@ EXCEPT !.obj = start.s, !.pc = 1, !.loc = Start,
                     !.status = IF ops_(patch) # NoErr THEN ops_(patch)
                                ELSE "running"]]

\* JsonPatch.apply entered without the copy, whatever in_place is
Call_without_copy(c) ==
    /\ calls[c].status = "idle"
    /\ diff.how # "none" /\ diff.err = NoErr
    /\ Entered(c, [h |-> heap, s |-> doc])
    /\ UNCHANGED <<doc, patch, given, diff, cmp>>

\* obj = copy.deepcopy(obj) of the call c took the step m: it raised, or
\* is done and _ops checks the patch, or is at the next turn of a loop
Entering(c, m) ==
    IF m.err # NoErr
    THEN /\ heap' = m.h
         /\ calls' = [calls EXCEPT ![c] = [@ EXCEPT !.status = m.err, !.loc = Start]]
    ELSE IF m.done
    THEN Entered(c, m)
    ELSE /\ heap' = m.h
         /\ calls' = [calls EXCEPT ![c] =
                [@ EXCEPT !.status = "copying",
                          !.loc = [at |-> "copy", tl |-> NoPart, value |-> m.s,
                                   cp |-> m.cp]]]

\* JsonPatch.apply is entered and goes up to its loop: the document is
\* copied unless in_place, one turn of copy.deepcopy a step, and _ops
\* checks every record of the patch
Call(c) ==
    /\ calls[c].status \in {"idle", "copying"}
    /\ diff.how # "none" /\ diff.err = NoErr
    /\ Entering(c, IF calls[c].status = "copying"
                   THEN copy_turn(heap, calls[c].loc.cp)
                   ELSE IF calls[c].in_place
                   THEN CopyStep(heap, NoCopy, TRUE, NoErr, doc)
                   ELSE copy_start(copy_begin(heap, doc)))
    /\ UNCHANGED <<doc, patch, given, diff, cmp>>

\* the call c is at an operation of class name
At(c, name) ==
    /\ calls[c].status = "running"
    /\ calls[c].pc <= Len(patch)
    /\ patch[calls[c].pc].op = name

\* the loop of JsonPatch.apply going on after an operation that raised
Step_over(c, m) ==
    /\ heap' = m.h
    /\ calls' = [calls EXCEPT ![c] =
           IF m.loc = Over
           THEN [@ EXCEPT !.obj = m.obj, !.pc = @ + 1, !.loc = Start]
           ELSE [@ EXCEPT !.loc = m.loc]]
    /\ UNCHANGED <<doc, patch, given, diff, cmp>>

\* one step of the thread c inside obj = operation.apply(obj), m being
\* what the step did: the operation goes on from its next line, or it
\* returned and the loop of JsonPatch.apply is at the next operation, or
\* it raised and the call is over
Step(c, m) ==
    /\ heap' = m.h
    /\ calls' = [calls EXCEPT ![c] =
           IF m.err # NoErr
           THEN [@ EXCEPT !.status = m.err, !.loc = Start]
           ELSE IF m.loc = Over
           THEN [@ EXCEPT !.obj = m.obj, !.pc = @ + 1, !.loc = Start]
           ELSE [@ EXCEPT !.loc = m.loc]]
    /\ UNCHANGED <<doc, patch, given, diff, cmp>>

Remove(c) ==
    /\ At(c, "remove")
    /\ Step(c, RemoveOperation_apply(heap, calls[c].obj, patch[calls[c].pc],
                                  calls[c].loc))

Add(c) ==
    /\ At(c, "add")
    /\ Step(c, AddOperation_apply(heap, calls[c].obj, patch[calls[c].pc],
                                  calls[c].loc))

Replace(c) ==
    /\ At(c, "replace")
    /\ Step(c, ReplaceOperation_apply(heap, calls[c].obj, patch[calls[c].pc],
                                  calls[c].loc))

Move(c) ==
    /\ At(c, "move")
    /\ Step(c, MoveOperation_apply(heap, calls[c].obj, patch[calls[c].pc],
                                  calls[c].loc))

Test(c) ==
    /\ At(c, "test")
    /\ Step(c, TestOperation_apply(heap, calls[c].obj, patch[calls[c].pc],
                                  calls[c].loc))

Copy(c) ==
    /\ At(c, "copy")
    /\ Step(c, CopyOperation_apply(heap, calls[c].obj, patch[calls[c].pc],
                                  calls[c].loc))

\* the loop is over: apply returns obj
Return(c) ==
    /\ calls[c].status = "running"
    /\ calls[c].pc > Len(patch)
    /\ calls' = [calls EXCEPT ![c] =
           [@ EXCEPT !.status = "returned", !.result = deref(heap, calls[c].obj)]]
    /\ UNCHANGED <<heap, doc, patch, given, diff, cmp>>

\* hash(JsonPatch(tp)) and hash(JsonPatch(tq))
Hash ==
    /\ DOMAIN calls = {}
    /\ ~cmp.hashed
    /\ cmp' = [cmp EXCEPT !.hashed = TRUE,
                          !.self = JsonPatch_hash(heap, patch),
                          !.that = JsonPatch_hash(heap, cmp.other)]
    /\ UNCHANGED <<heap, doc, patch, calls, given, diff>>

\* JsonPatch(tp) == JsonPatch(tq)
Eq ==
    /\ DOMAIN calls = {}
    /\ ~cmp.compared
    /\ cmp' = [cmp EXCEPT !.compared = TRUE,
                          !.eq = JsonPatch_eq(heap, patch, cmp.other)]
    /\ UNCHANGED <<heap, doc, patch, calls, given, diff>>

Next ==
    \/ \E optimization \in BOOLEAN : FromDiff(optimization)
    \/ MakePatch
    \/ \E c \in DOMAIN calls : Call(c)
    \/ \E c \in DOMAIN calls : Remove(c)
    \/ \E c \in DOMAIN calls : Add(c)
    \/ \E c \in DOMAIN calls : Replace(c)
    \/ \E c \in DOMAIN calls : Move(c)
    \/ \E c \in DOMAIN calls : Test(c)
    \/ \E c \in DOMAIN calls : Copy(c)
    \/ \E c \in DOMAIN calls : Return(c)
    \/ Hash
    \/ Eq

Spec == Init /\ [][Next]_vars

(* ------------------------------ claims -------------------------------- *)
\* the call c is over: it returned or raised
Done(c) == calls[c].status \notin {"idle", "copying", "running"}

\* the call c is past the copy of the document: _ops has checked the patch
Checked(c) == calls[c].status \notin {"idle", "copying"}

\* the call c raised
Failed(c) == Done(c) /\ calls[c].status # "returned"

\* the operation the call c is at
Current(c) == patch[calls[c].pc]

\* the call c is at the first line of an operation of the class name
Begins(c, name) == At(c, name) /\ calls[c].loc = Start

\* what the operation the call c is at does from here, no other thread
\* running between its steps
Whole(c) == apply_operation(heap, calls[c].obj, Current(c))

OneCall == DOMAIN calls = {1}

\* what r, the outcome of an apply as one call, returned
Returned(r) == deref(r.h, r.obj)

\* the given patch is the one operation op at path with a value
OnlyOp(op, path) ==
    /\ Len(given.patch) = 1
    /\ given.patch[1].opm = "str"
    /\ given.patch[1].op = op
    /\ given.patch[1].path = path
    /\ given.patch[1].hasValue

\* C1: for all src and dst, make_patch(src, dst) returns a patch without
\* raising, and applying that patch to src with in_place=False returns a
\* document equal to dst.
C1_MakePatchRoundTrip ==
    diff.how = "make_patch" =>
        /\ diff.err = NoErr
        /\ \A c \in DOMAIN calls :
               ~calls[c].in_place =>
                   /\ ~Failed(c)
                   /\ calls[c].status = "returned" => Same(calls[c].result, diff.dst)

\* the optimized patch o, applied to src with outcome r, does not give dst
OptimizedMisses(o, r) ==
    /\ o.err = NoErr
    /\ r.err # NoErr \/ ~Same(Returned(r), diff.dst)

OptimizedMissed(o) == OptimizedMisses(o, apply_tree(diff.src, o.ops))

\* C2: whenever applying the optimized patch from_diff(src, dst) to src
\* does not produce dst, by returning another document or by raising,
\* make_patch(src, dst) returns the patch from_diff(src, dst, False).
C2_FallsBackToRaw ==
    (diff.how = "make_patch" /\ OptimizedMissed(from_diff(diff.src, diff.dst, TRUE))) =>
        /\ diff.err = NoErr
        /\ given.patch = from_diff(diff.src, diff.dst, FALSE).ops

\* the index of operation is one the array tl.sub has a place for
IndexInRange(operation, tl) ==
    (tl.err = NoErr /\ ~tl.none /\ IsSeq(heap, tl.sub)) =>
        /\ tl.isInt
        /\ operation.op = "remove" => tl.idx < Len_(heap, tl.sub)
        /\ operation.op = "add" => tl.idx <= Len_(heap, tl.sub)

IndexValid(c) ==
    (calls[c].status = "running" /\ calls[c].pc <= Len(patch)) =>
        IndexInRange(Current(c), to_last(heap, calls[c].obj, Current(c).path))

\* C3: applying the patch from_diff(src, dst, False) to src operation by
\* operation never fails: the index of every remove is below the length
\* the array has then, the index of every add is at most that length, and
\* the document the last operation leaves equals dst.
C3_RawPatchNeverFails ==
    diff.how = "raw" =>
        /\ diff.err = NoErr
        /\ \A c \in DOMAIN calls :
               /\ ~Failed(c)
               /\ IndexValid(c)
               /\ calls[c].status = "returned" => Same(calls[c].result, diff.dst)

\* the raw patch of [1, 2] and [2, 3, 1] was applied to [1, 2]
C3_Witness ==
    /\ diff.how = "raw"
    /\ diff.src = Arr(<<Num(1), Num(2)>>)
    /\ diff.dst = Arr(<<Num(2), Num(3), Num(1)>>)
    /\ Len(patch) = 3
    /\ calls[1].status = "returned"
    /\ calls[1].result = diff.dst

\* C4: applying a patch never mutates its operation records: every
\* operation, its value and all that is nested in it, stays equal to what
\* it was when the patch was given, whether apply returns or raises.
C4_PatchNeverMutated == derefPatch(heap, patch) = given.patch

\* the outcome of the call c is the outcome r
SameOutcome(c, r) ==
    IF r.err # NoErr
    THEN calls[c].status = r.err
    ELSE calls[c].status = "returned" /\ Same(calls[c].result, Returned(r))

\* C5: two calls with in_place=False that share the patch object and the
\* document, their operations interleaved in any way or one call after
\* the other, each end as a single call on its own ends.
C5_SharedCallsIsolated ==
    \A c \in DOMAIN calls :
        (DOMAIN calls = {1, 2} /\ Done(c)) =>
            SameOutcome(c, apply_tree(given.doc, given.patch))

\* C6, as written: with in_place=False the caller's document is unchanged
\* after apply returns or raises, and the document returned is an object
\* distinct from the input, whatever the document.
C6_ReturnsDistinctObject ==
    \A c \in DOMAIN calls :
        ~calls[c].in_place =>
            /\ Done(c) => Same(deref(heap, doc), given.doc)
            /\ calls[c].status = "returned" => calls[c].obj # doc

\* C6, amended: with in_place=False the caller's document is unchanged
\* while apply runs and after it returns or raises, and the document
\* returned for an input that is an object or an array is an object
\* distinct from the input (a number is returned as the same object).
C6_CopyLeavesDocument ==
    \A c \in DOMAIN calls :
        ~calls[c].in_place =>
            /\ Same(deref(heap, doc), given.doc)
            /\ (calls[c].status = "returned" /\ given.doc.t # "num") =>
                   calls[c].obj # doc

\* a call with in_place=False returned another document than the object
\* or array it was given
C6_Witness ==
    /\ OneCall
    /\ ~calls[1].in_place
    /\ given.doc.t # "num"
    /\ calls[1].status = "returned"
    /\ ~Same(calls[1].result, given.doc)
    /\ calls[1].obj # doc
    /\ Same(deref(heap, doc), given.doc)

\* the first n operations of the given patch applied to the given
\* document gave r, and the caller's document shows it
Visible(r) == r.err = NoErr /\ Same(Returned(r), deref(heap, doc))

\* no operation among the first n targets the empty path
RootKept(n) == \A i \in 1..n : given.patch[i].path # <<>>

\* the first n operations of the given patch
FirstOps(n) == SubSeq(given.patch, 1, n)

\* the removal a move makes before its addition
RemovalOf(operation) == MkOp("remove", operation.from, FALSE, NoValue, FALSE, <<>>)

\* the call c failed at operation k: the operations before k are visible,
\* and of operation k nothing, or of a move the removal
FailedAt(c, k) ==
    /\ apply_tree(given.doc, FirstOps(k)).err = calls[c].status
    /\ \/ Visible(apply_tree(given.doc, FirstOps(k - 1)))
       \/ /\ Current(c).opm = "str" /\ Current(c).op = "move" /\ Current(c).hasFrom
          /\ Visible(apply_tree(given.doc,
                                Append(FirstOps(k - 1), RemovalOf(given.patch[k]))))

\* the call c is inside operation k: the operations before k are
\* visible, and of operation k nothing, or of a move the removal
Inside(c, k) ==
    \/ Visible(apply_tree(given.doc, FirstOps(k - 1)))
    \/ /\ Current(c).op = "move"
       /\ calls[c].loc.at \in {"add", "to_last_add", "put", "insert"}
       /\ Visible(apply_tree(given.doc,
                             Append(FirstOps(k - 1), RemovalOf(given.patch[k]))))

\* C7: with in_place=True the caller's document is the object that is
\* mutated and returned, unless an operation targets the empty path; when
\* operation k fails, the operations before k stay applied to the caller's
\* document and no operation after k is applied (a patch with a record
\* that _ops rejects fails before its first operation).
C7_InPlaceKeepsEffects ==
    \A c \in DOMAIN calls :
        (calls[c].in_place /\ calls[c].status # "idle" /\ RootKept(calls[c].pc - 1)) =>
            /\ calls[c].obj = doc
            /\ ~Failed(c) =>
                   IF calls[c].loc = Start
                   THEN Visible(apply_tree(given.doc, FirstOps(calls[c].pc - 1)))
                   ELSE Inside(c, calls[c].pc)
            /\ Failed(c) =>
                   IF ops_(patch) # NoErr
                   THEN Same(deref(heap, doc), given.doc)
                   ELSE FailedAt(c, calls[c].pc)

\* a call with in_place=True failed at its second operation, and the
\* caller's document shows the first
C7_Witness ==
    /\ OneCall
    /\ calls[1].in_place
    /\ Failed(1)
    /\ calls[1].pc = 2
    /\ calls[1].obj = doc
    /\ ~Same(deref(heap, doc), given.doc)

\* C8: an add whose path is the empty pointer replaces the whole document
\* with its value, whatever the root is: an object, an array or a number.
C8_AddAtRootReplaces ==
    \A c \in DOMAIN calls :
        (OneCall /\ Done(c) /\ OnlyOp("add", <<>>)) =>
            /\ calls[c].status = "returned"
            /\ Same(calls[c].result, given.patch[1].value)

\* the elements of the array at slot s
ElementsOf(h, s) == Elems(deref(h, s))

\* new is old with value inserted at position i (from 0)
InsertedAt(old, new, i, value) ==
    /\ Len(new) = Len(old) + 1
    /\ \A j \in 1..i : new[j] = old[j]
    /\ new[i + 1] = value
    /\ \A j \in (i + 1)..Len(old) : new[j + 1] = old[j]

\* the add of c, which did r, added value to the array tl.sub
AddedToArray(c, tl, value, r) ==
    IF tl.tok = "-"
    THEN /\ r.err = NoErr
         /\ InsertedAt(ElementsOf(heap, tl.sub), ElementsOf(r.h, tl.sub),
                       Len_(heap, tl.sub), value)
    ELSE IF tl.idx <= Len_(heap, tl.sub)
    THEN /\ r.err = NoErr
         /\ InsertedAt(ElementsOf(heap, tl.sub), ElementsOf(r.h, tl.sub),
                       tl.idx, value)
    ELSE /\ r.err = "JsonPatchConflict"
         /\ ElementsOf(r.h, tl.sub) = ElementsOf(heap, tl.sub)
         /\ Same(deref(r.h, r.obj), deref(heap, calls[c].obj))

\* the call c begins an add whose parent, tl.sub, is an array
AddsToArray(c, tl) ==
    /\ Begins(c, "add")
    /\ Current(c).hasValue
    /\ tl.err = NoErr /\ ~tl.none /\ IsSeq(heap, tl.sub)

\* C9: an add whose parent is an array appends the value for the token
\* '-'; for an index i with 0 <= i <= len it inserts the value at i, the
\* array growing by one, the elements before i staying and those from i
\* on moving right by one; for i > len it fails with JsonPatchConflict
\* and the array is unchanged.
C9_AddIntoArray ==
    \A c \in DOMAIN calls :
        AddsToArray(c, to_last(heap, calls[c].obj, Current(c).path)) =>
            AddedToArray(c, to_last(heap, calls[c].obj, Current(c).path),
                         deref(heap, Current(c).value), Whole(c))

\* [1] was added at index 1 of [1, 2]
C9_Witness ==
    /\ OneCall
    /\ given.doc = Arr(<<Num(1), Num(2)>>)
    /\ OnlyOp("add", <<"1">>)
    /\ calls[1].status = "returned"
    /\ calls[1].result = Arr(<<Num(1), Arr(<<Num(1)>>), Num(2)>>)

\* the location tl of a replace is not there: an index at or past the
\* length of the array, or a key the object has not
NoLocation(tl) ==
    /\ tl.err = NoErr /\ ~tl.none
    /\ \/ IsSeq(heap, tl.sub) /\ tl.isInt /\ tl.idx >= Len_(heap, tl.sub)
       \/ IsMap(heap, tl.sub) /\ ~HasKey(heap[tl.sub.n].c, tl.tok)

ReplacesNothing(c, tl) ==
    /\ Begins(c, "replace")
    /\ Current(c).hasValue
    /\ NoLocation(tl)

\* the operation of c, which did r, raised JsonPatchConflict and left
\* the document as it was
Conflicted(c, r) ==
    /\ r.err = "JsonPatchConflict"
    /\ Same(deref(r.h, r.obj), deref(heap, calls[c].obj))

\* C10: a replace at an index i >= len of an array, i == len too, or at
\* a key an object has not, fails with JsonPatchConflict and leaves the
\* document unchanged: it never adds an element or a key.
C10_ReplaceNeedsLocation ==
    \A c \in DOMAIN calls :
        ReplacesNothing(c, to_last(heap, calls[c].obj, Current(c).path)) =>
            Conflicted(c, Whole(c))

\* the members of the container at slot s
MembersOf(h, s) == deref(h, s).c

\* new is old without its element at position i (from 0)
RemovedAt(old, new, i) ==
    /\ Len(new) = Len(old) - 1
    /\ \A j \in 1..i : new[j] = old[j]
    /\ \A j \in (i + 1)..Len(new) : new[j] = old[j + 1]

\* new is old without its member key
RemovedKey(old, new, key) ==
    new = SelectSeq(old, LAMBDA m : m.key # key)

\* the entry tl of a remove is there
HasEntry(tl) ==
    \/ IsSeq(heap, tl.sub) /\ tl.idx < Len_(heap, tl.sub)
    \/ IsMap(heap, tl.sub) /\ HasKey(heap[tl.sub.n].c, tl.tok)

\* the remove of c, which did r, removed the entry tl, or refused to
RemovedEntry(c, tl, r) ==
    IF HasEntry(tl)
    THEN /\ r.err = NoErr
         /\ IF IsSeq(heap, tl.sub)
            THEN RemovedAt(MembersOf(heap, tl.sub), MembersOf(r.h, tl.sub), tl.idx)
            ELSE RemovedKey(MembersOf(heap, tl.sub), MembersOf(r.h, tl.sub), tl.tok)
    ELSE Conflicted(c, r)

\* the call c begins a remove of a key of an object or an index of an
\* array
RemovesEntry(c, tl) ==
    /\ Begins(c, "remove")
    /\ tl.err = NoErr /\ ~tl.none
    /\ IsMap(heap, tl.sub) \/ (IsSeq(heap, tl.sub) /\ tl.isInt)

\* C11: a remove of a key an object has not, or of an index i >= len of
\* an array, fails with JsonPatchConflict and leaves the document
\* unchanged; a remove of an entry that is there deletes that entry and
\* no other, the later elements of an array moving left by one.
C11_RemoveEntry ==
    \A c \in DOMAIN calls :
        RemovesEntry(c, to_last(heap, calls[c].obj, Current(c).path)) =>
            RemovedEntry(c, to_last(heap, calls[c].obj, Current(c).path), Whole(c))

\* the first element of [1, 2] was removed
C11_Witness ==
    /\ OneCall
    /\ given.doc = Arr(<<Num(1), Num(2)>>)
    /\ Len(given.patch) = 1
    /\ given.patch[1].op = "remove"
    /\ given.patch[1].path = <<"0">>
    /\ calls[1].status = "returned"
    /\ calls[1].result = Arr(<<Num(2)>>)

\* the given patch is the one move from a location to itself
OnlyMoveToItself ==
    /\ Len(given.patch) = 1
    /\ given.patch[1].opm = "str"
    /\ given.patch[1].op = "move"
    /\ given.patch[1].hasFrom
    /\ given.patch[1].from = given.patch[1].path

\* C12: a move whose from equals its path is a no-op: for every document
\* apply succeeds and returns the document unchanged.
C12_MoveToItselfIsNoOp ==
    \A c \in DOMAIN calls :
        (OneCall /\ Done(c) /\ OnlyMoveToItself) =>
            /\ calls[c].status = "returned"
            /\ Same(calls[c].result, given.doc)

\* the call c begins a move of the value at tl, which is there, to a
\* path strictly below its from
MovesIntoItself(c, tl) ==
    /\ Begins(c, "move")
    /\ Current(c).hasFrom
    /\ Current(c).path # Current(c).from
    /\ contains(Current(c).path, Current(c).from)
    /\ tl.err = NoErr
    /\ getitem(heap, tl).err = NoErr

\* C13: a move whose path is strictly below its from fails with
\* JsonPatchConflict and leaves the document unchanged, whether the
\* parent of from is an object or an array.
C13_MoveIntoChildConflicts ==
    \A c \in DOMAIN calls :
        MovesIntoItself(c, to_last(heap, calls[c].obj, Current(c).from)) =>
            Conflicted(c, Whole(c))

\* the removal at from, then the addition at path of the value that was
\* at from
RemoveThenAdd(operation, value) ==
    <<MkOp("remove", operation.from, FALSE, NoValue, FALSE, <<>>),
      MkOp("add", operation.path, TRUE, value, FALSE, <<>>)>>

\* the move of c to another location, which did m, succeeded
Moved(c, m) ==
    /\ Begins(c, "move")
    /\ m.err = NoErr
    /\ Current(c).path # Current(c).from

\* the document the move left, m, is what the two operations give, r
SameAsRemoveThenAdd(m, r) ==
    /\ r.err = NoErr
    /\ Same(Returned(m), Returned(r))

\* the move of c, if it did m and succeeded, did what the removal and
\* the addition of value do
MovedAs(c, m, value) ==
    Moved(c, m) =>
        SameAsRemoveThenAdd(m, apply_tree(deref(heap, calls[c].obj),
                                          RemoveThenAdd(Current(c), value)))

\* C14: whenever a move with from != path succeeds, its result is the
\* removal of the entry at from followed by the addition of the removed
\* value at path, path being resolved in the document as the removal
\* left it.
C14_MoveIsRemoveThenAdd ==
    \A c \in DOMAIN calls :
        Begins(c, "move") =>
            MovedAs(c, Whole(c),
                    deref(heap, getitem(heap, to_last(heap, calls[c].obj,
                                                      Current(c).from)).s))

\* the first element of [[1], []] was moved to /0/0: into the element
\* that was the second
C14_Witness ==
    /\ OneCall
    /\ given.doc = Arr(<<Arr(<<Num(1)>>), Arr(<<>>)>>)
    /\ Len(given.patch) = 1
    /\ given.patch[1].op = "move"
    /\ given.patch[1].from = <<"0">>
    /\ given.patch[1].path = <<"0", "0">>
    /\ calls[1].status = "returned"
    /\ calls[1].result = Arr(<<Arr(<<Arr(<<Num(1)>>)>>)>>)

RECURSIVE Cells(_, _)
\* the addresses of the objects reachable from slot s
Cells(h, s) ==
    IF s.t = "num"
    THEN {}
    ELSE {s.n} \cup UNION {Cells(h, h[s.n].c[i].v) : i \in 1..Len(h[s.n].c)}

\* the slot an add at the location tl has filled
AddedSlot(h, obj, tl) ==
    IF tl.none
    THEN obj
    ELSE IF IsSeq(h, tl.sub) /\ tl.tok = "-"
    THEN h[tl.sub.n].c[Len_(h, tl.sub)].v
    ELSE getitem(h, tl).s

\* the copy of c, which did r, succeeded
Copied(c, r) ==
    /\ Begins(c, "copy")
    /\ r.err = NoErr

\* pointer p is pointer f or leads to a location above it
IsPrefix(p, f) ==
    /\ Len(p) <= Len(f)
    /\ SubSeq(f, 1, Len(p)) = p

\* what is at the tokens path in the document obj, tl being what
\* to_last returned for them
found_at(h, obj, tl) ==
    IF tl.err # NoErr
    THEN [err |-> tl.err, s |-> obj]
    ELSE getitem(h, tl)

\* the add at path, whose parent and last step are tl, replaced a value
\* on the way to from: path is from or leads to a location above it, and
\* is the root or a member of an object
AddReplaced(c, tl) ==
    /\ IsPrefix(Current(c).path, Current(c).from)
    /\ (tl.none \/ IsMap(heap, tl.sub))

\* the add at path shifted a location on the way to from: it inserted
\* into an array that from passes through, at the index from takes there
\* or before it
AddShifted(c, tl) ==
    /\ ~tl.none /\ IsSeq(heap, tl.sub) /\ tl.isInt
    /\ Len(Current(c).path) <= Len(Current(c).from)
    /\ SubSeq(Current(c).from, 1, Len(Current(c).path) - 1)
           = SubSeq(Current(c).path, 1, Len(Current(c).path) - 1)
    /\ IsIndexTok(Current(c).from[Len(Current(c).path)])
    /\ int(Current(c).from[Len(Current(c).path)]) >= tl.idx

\* the add at path put the copy inside the source: path lies below from
AddInside(c) ==
    /\ Len(Current(c).from) < Len(Current(c).path)
    /\ IsPrefix(Current(c).from, Current(c).path)

\* the add at path, whose parent and last step are tl, replaced nothing
\* on the way to from and shifted nothing
AddKeepsLocation(c, tl) == ~AddReplaced(c, tl) /\ ~AddShifted(c, tl)

\* the source of the copy of c, which did r, is where the add at path,
\* whose parent and last step are tl, left it: still in the document
\* unless the add replaced a value it was part of, as it was unless the
\* copy was put inside it, and still what from leads to unless the add
\* replaced or shifted a location on the way
SourceKept(c, r, source, tl) ==
    /\ (source.t = "ref" /\ ~AddReplaced(c, tl)) => source.n \in Cells(r.h, r.obj)
    /\ ~AddInside(c) => Same(deref(r.h, source), deref(heap, source))
    /\ AddKeepsLocation(c, tl) =>
           found_at(r.h, r.obj, to_last(r.h, r.obj, Current(c).from))
               = [err |-> NoErr, s |-> source]

\* source is the slot that was read at from, and copy the slot that is
\* at path in the document the copy left, r: the copy equals the source
\* as it was, none of its objects existed before the copy, and the
\* source is where the add left it
CopyIsApart(c, r, source, copy) ==
    /\ Same(deref(r.h, copy), deref(heap, source))
    /\ Cells(r.h, copy) \cap (1..Len(heap)) = {}
    /\ Cells(r.h, copy) \cap Cells(heap, source) = {}
    /\ SourceKept(c, r, source, to_last(heap, calls[c].obj, Current(c).path))

\* the copy of c, if it did r and succeeded, left the source and its copy
\* apart
CopiedApart(c, r) ==
    Copied(c, r) =>
        CopyIsApart(c, r,
            getitem(heap, to_last(heap, calls[c].obj, Current(c).from)).s,
            AddedSlot(r.h, r.obj, to_last(r.h, r.obj, Current(c).path)))

\* in the document the copy left, r, item is what from leads to: it is
\* the value that was there, source, and the value at path, copy, equals
\* it and has no object in common with it
SourceInPlace(r, source, item, copy) ==
    /\ item.err = NoErr
    /\ Same(deref(r.h, item.s), deref(heap, source))
    /\ Same(deref(r.h, copy), deref(heap, source))
    /\ Cells(r.h, copy) \cap Cells(r.h, item.s) = {}

\* the copy of c, if it did r and succeeded, left at from what was there
CopiedInPlace(c, r) ==
    Copied(c, r) =>
        SourceInPlace(r,
            getitem(heap, to_last(heap, calls[c].obj, Current(c).from)).s,
            found_at(r.h, r.obj, to_last(r.h, r.obj, Current(c).from)),
            AddedSlot(r.h, r.obj, to_last(r.h, r.obj, Current(c).path)))

\* C15, as stated: a copy from F to P leaves the value at F in place and
\* adds at P an equal value that shares no mutable state with it, for
\* every F and P: after the copy F leads to the value it led to before,
\* and P to an equal value that has no object in common with it.
C15_CopyLeavesSource ==
    \A c \in DOMAIN calls : Begins(c, "copy") => CopiedInPlace(c, Whole(c))

\* C15, amended: a copy from F to P adds at P a value that equals the
\* value at F as it was and shares no object with it or with anything
\* that was in the document, so that no later operation inside the one
\* changes the other; the value that was at F is unchanged unless P lies
\* below F, as an object or an array it stays in the document unless the
\* add at P replaced a value it was part of (P is F or leads to a location
\* above F, and is the root or a member of an object), and it is still
\* what F leads to unless the add replaced such a value or inserted into
\* an array that F passes through, at the index F takes there or before.
C15_CopyIsDeep ==
    \A c \in DOMAIN calls : Begins(c, "copy") => CopiedApart(c, Whole(c))

\* /a of {"a": [1, 2]} was copied to /b, then 2 was appended to /a: the
\* copy at /b is still [1, 2]
C15_Witness ==
    /\ OneCall
    /\ given.doc = Obj1("a", Arr(<<Num(1), Num(2)>>))
    /\ Len(given.patch) = 2
    /\ given.patch[1].op = "copy"
    /\ given.patch[2].op = "add"
    /\ given.patch[2].path = <<"a", "-">>
    /\ calls[1].status = "returned"
    /\ calls[1].result = Obj2("a", Arr(<<Num(1), Num(2), Num(2)>>),
                              "b", Arr(<<Num(1), Num(2)>>))

\* the resolution of the pointer, w, did not fail: it led to a value of
\* the document or, at "-" in an array, to the EndOfList object
Resolved(w) == w.err = NoErr

\* what the pointer resolved to, w, is not the value v
Differs(w, v) == w.eol \/ ~Same(deref(heap, w.s), deref(heap, v))

\* the call c begins a test
Tested(c) == Begins(c, "test")

\* the outcome, r, of a test whose path resolved as w
TestOutcome(c, w, r) ==
    /\ ~Resolved(w) => r.err = "JsonPatchTestFailed"
    /\ (Resolved(w) /\ Current(c).hasValue /\ Differs(w, Current(c).value)) =>
           r.err = "JsonPatchTestFailed"
    /\ r.err \notin {"JsonPatchConflict", "JsonPointerException"}
    /\ r.h = heap
    /\ r.obj = calls[c].obj

\* C16: a test whose path does not resolve fails with JsonPatchTestFailed,
\* never with JsonPatchConflict or a pointer error, with or without a
\* value member; a test whose path resolves to another value than its
\* value member fails with JsonPatchTestFailed too; no test changes the
\* document.
C16_TestFails ==
    \A c \in DOMAIN calls :
        Tested(c) =>
            TestOutcome(c, walk_all(heap, calls[c].obj, Current(c).path), Whole(c))

\* a test without a value member at a path the document has not
C16_Witness ==
    /\ OneCall
    /\ calls[1].in_place
    /\ given.doc = Obj1("a", Num(1))
    /\ Len(given.patch) = 1
    /\ given.patch[1].opm = "str"
    /\ given.patch[1].op = "test"
    /\ given.patch[1].path = <<"b">>
    /\ ~given.patch[1].hasValue
    /\ calls[1].status = "JsonPatchTestFailed"
    /\ Same(deref(heap, doc), given.doc)

\* the call c begins a test without a value member
TestedNoValue(c) == Tested(c) /\ ~Current(c).hasValue

\* the outcome, r, of a test without a value member whose path resolved
\* as w
NoValueOutcome(w, r) ==
    r.err = IF Resolved(w) THEN "InvalidJsonPatch" ELSE "JsonPatchTestFailed"

\* C17, as stated: a test without a value member is rejected with
\* InvalidJsonPatch, for every document and every path.
C17_TestNeedsValue ==
    \A c \in DOMAIN calls :
        TestedNoValue(c) => Whole(c).err = "InvalidJsonPatch"

\* C17, amended: a test without a value member is rejected with
\* InvalidJsonPatch when the resolution of its path does not fail, and
\* fails with JsonPatchTestFailed when it does.
C17_TestNeedsValueOnceResolved ==
    \A c \in DOMAIN calls :
        TestedNoValue(c) =>
            NoValueOutcome(walk_all(heap, calls[c].obj, Current(c).path), Whole(c))

\* a test without a value member at a path the document has
C17_Witness ==
    /\ OneCall
    /\ given.doc = Obj1("a", Num(1))
    /\ Len(given.patch) = 1
    /\ given.patch[1].opm = "str"
    /\ given.patch[1].op = "test"
    /\ given.patch[1].path = <<"a">>
    /\ ~given.patch[1].hasValue
    /\ calls[1].status = "InvalidJsonPatch"

\* the record o is no operation: its op member is missing, is not a
\* string, or names none of the six operations
NoOperation(o) ==
    \/ o.opm # "str"
    \/ o.op \notin {"add", "remove", "replace", "move", "copy", "test"}

HasNoOperation(p) == \E i \in DOMAIN p : NoOperation(p[i])

\* the call c was rejected and has applied nothing
Rejected(c) ==
    /\ calls[c].status = "InvalidJsonPatch"
    /\ Same(deref(heap, calls[c].obj), given.doc)
    /\ Same(deref(heap, doc), given.doc)

\* C18: a patch with a record whose op member is missing, not a string
\* or not one of the six names is rejected with InvalidJsonPatch before
\* any of its operations is applied: the document is unchanged, also
\* with in_place=True and the record in the last position.
C18_InvalidOpRejectedFirst ==
    \A c \in DOMAIN calls :
        (HasNoOperation(patch) /\ Checked(c)) => Rejected(c)

\* in place, an add to {} followed by a record with an unknown op
C18_Witness ==
    /\ OneCall
    /\ calls[1].in_place
    /\ given.doc = EmptyObj
    /\ Len(given.patch) = 2
    /\ given.patch[1] = MkOp("add", <<"a">>, TRUE, Arr(<<Num(1)>>), FALSE, <<>>)
    /\ given.patch[2].op = "bogus"
    /\ calls[1].status = "InvalidJsonPatch"
    /\ calls[1].obj = doc
    /\ deref(heap, doc) = EmptyObj

\* two patch objects were made and no record of theirs is invalid
ValidPair ==
    /\ DOMAIN calls = {}
    /\ ~HasNoOperation(patch) /\ ~HasNoOperation(cmp.other)

\* the two patch objects were made from the same operation list
SameList == derefPatch(heap, cmp.other) = given.patch

\* C19: for every valid operation list p, also one whose operations carry
\* an object or an array as value, hash(JsonPatch(p)) is defined,
\* JsonPatch(p) == JsonPatch(p), and two patches that compare equal have
\* equal hashes.
C19_HashDefined ==
    ValidPair =>
        /\ cmp.hashed => cmp.self.err = NoErr /\ cmp.that.err = NoErr
        /\ (cmp.compared /\ SameList) => cmp.eq.err = NoErr /\ cmp.eq.v
        /\ (cmp.hashed /\ cmp.compared /\ cmp.eq.v) => cmp.self = cmp.that

\* from_diff returned a patch
Diffed == diff.how \in {"raw", "optimized"} /\ diff.err = NoErr

\* C20: from_diff(src, dst), with optimization on or off, returns the
\* empty patch if and only if src and dst are structurally equal.
C20_EmptyIffEqual ==
    Diffed => (given.patch = <<>> <=> Same(diff.src, diff.dst))

\* the optimized diff of [1, {"a": 1}] and itself is the empty patch
C20_Witness ==
    /\ diff.how = "optimized" /\ diff.err = NoErr
    /\ diff.src = Arr(<<Num(1), Obj1("a", Num(1))>>)
    /\ diff.dst = diff.src
    /\ given.patch = <<>>
    /\ patch = <<>>

\* the operations of ops at the location p or below it, in order
Below(x, p) == IsPrefix(p, x.path)

OpsBelow(ops, p) == SelectSeq(ops, LAMBDA x : Below(x, p))

\* from_diff returned a patch for two objects
DiffedObjects == Diffed /\ IsTreeMap(diff.src) /\ IsTreeMap(diff.dst)

Keys(v) == {v.c[i].key : i \in 1..Len(v.c)}

\* what the diff of the objects src and dst holds for key, ops being its
\* operations at key or below
KeyDiffed(src, dst, key, ops) ==
    IF ~TreeHasKey(dst, key)
    THEN ops = <<MkOp("remove", <<key>>, FALSE, NoValue, FALSE, <<>>)>>
    ELSE IF ~TreeHasKey(src, key)
    THEN ops = <<MkOp("add", <<key>>, TRUE, TreeAt(dst, key), FALSE, <<>>)>>
    ELSE /\ D(NoErr, ops) = compare_values(<<key>>, TreeAt(src, key), TreeAt(dst, key),
                                           diff.how = "optimized")
         /\ Same(TreeAt(src, key), TreeAt(dst, key)) => ops = <<>>

\* C21: the diff of two objects holds exactly one remove at p/key for
\* every key of src that dst has not, exactly one add at p/key with
\* dst[key] for every key of dst that src has not, the diff of src[key]
\* and dst[key] for every key of both, nothing at or below the key of
\* equal values, and nothing else.
C21_DictDiffPerKey ==
    DiffedObjects =>
        /\ \A key \in Keys(diff.src) \cup Keys(diff.dst) :
               KeyDiffed(diff.src, diff.dst, key, OpsBelow(given.patch, <<key>>))
        /\ \A i \in DOMAIN given.patch :
               /\ given.patch[i].path # <<>>
               /\ given.patch[i].path[1] \in Keys(diff.src) \cup Keys(diff.dst)

\* {"a": [1], "b": 2} to {"a": [1]}: the one operation is the remove of b
C21_Witness ==
    /\ Diffed
    /\ diff.src = Obj2("a", Arr(<<Num(1)>>), "b", Num(2))
    /\ diff.dst = Obj1("a", Arr(<<Num(1)>>))
    /\ given.patch = <<MkOp("remove", <<"b">>, FALSE, NoValue, FALSE, <<>>)>>

\* a patch was made with the optimisation on
DiffedOptimized == diff.how \in {"optimized", "make_patch"} /\ diff.err = NoErr

IsScalarArr(v) == IsTreeSeq(v) /\ \A i \in 1..Len(v.c) : v.c[i].v.t = "num"

\* the arrays of scalars src and dst are as long as each other and differ
\* at the position k only (counted from 0)
DifferAt(src, dst, k) ==
    /\ IsScalarArr(src) /\ IsScalarArr(dst)
    /\ Len(src.c) = Len(dst.c)
    /\ k + 1 \in 1..Len(src.c)
    /\ \A i \in 1..Len(src.c) : (src.c[i].v # dst.c[i].v) <=> (i = k + 1)

\* C22: the diff of two arrays of scalars of equal length that differ at
\* exactly one position k is exactly one operation, a replace at path/k
\* with the value dst[k].
C22_OneReplace ==
    \A k \in 0..(MaxDiffLen - 1) :
        (DiffedOptimized /\ DifferAt(diff.src, diff.dst, k)) =>
            given.patch = <<MkOp("replace", <<str(k)>>, TRUE, diff.dst.c[k + 1].v,
                                 FALSE, <<>>)>>

\* the arrays src and dst are as long as each other and differ at the
\* position k only (counted from 0), where both hold an object or both
\* hold an array
ContainersDifferAt(src, dst, k) ==
    /\ IsTreeSeq(src) /\ IsTreeSeq(dst)
    /\ Len(src.c) = Len(dst.c)
    /\ k + 1 \in 1..Len(src.c)
    /\ \A i \in 1..Len(src.c) : (src.c[i].v # dst.c[i].v) <=> (i = k + 1)
    /\ \/ IsTreeMap(src.c[k + 1].v) /\ IsTreeMap(dst.c[k + 1].v)
       \/ IsTreeSeq(src.c[k + 1].v) /\ IsTreeSeq(dst.c[k + 1].v)

\* the patch is the diff of the two elements at k, below k
RecursedAt(k, optimization) ==
    /\ D(NoErr, given.patch) =
           compare_values(<<str(k)>>, diff.src.c[k + 1].v, diff.dst.c[k + 1].v,
                          optimization)
    /\ \A i \in DOMAIN given.patch : given.patch[i].path # <<str(k)>>

\* C23: where two arrays differ at a position k at which both hold an
\* object, or both an array, the diff recurses: the operations for the
\* position are the diff of src[k] and dst[k] with path/k before every
\* path, never a replace or a remove and an add of the whole element.
C23_ArrayDiffRecurses ==
    \A k \in 0..(MaxDiffLen - 1) :
        (Diffed /\ ContainersDifferAt(diff.src, diff.dst, k)) =>
            RecursedAt(k, diff.how = "optimized")

\* a patch was made of two documents, by from_diff or by make_patch
PatchMade == diff.how \in {"raw", "optimized", "make_patch"} /\ diff.err = NoErr

\* the operation x has the members of its kind, and no other
FieldsOfVariant(x) ==
    /\ x.hasValue <=> x.op \in {"add", "replace", "test"}
    /\ x.hasFrom <=> x.op \in {"move", "copy"}

\* C24: every operation of a patch made by make_patch or by from_diff,
\* with optimization on or off, has only the fields of its variant: no
\* remove and no move has a value.
C24_OnlyVariantFields ==
    PatchMade => \A i \in DOMAIN given.patch : FieldsOfVariant(given.patch[i])

\* from_diff with the optimisation on returned a patch holding an
\* operation of the kind op, which only the coalescing of _optimize makes
Coalesced(op) ==
    /\ diff.how = "optimized" /\ diff.err = NoErr
    /\ \E i \in DOMAIN given.patch : given.patch[i].op = op

\* the call c ended as r, the raw patch applied to src, did
EndedAsRaw(c, r) ==
    /\ calls[c].status = "returned"
    /\ r.err = NoErr
    /\ Same(calls[c].result, Returned(r))

\* C25: whenever _optimize turns a remove and a later add, or an add and
\* a later remove, into a move, the patch from_diff(src, dst) applies to
\* src and gives the document the raw patch gives, whatever operations
\* lay between the two.
C25_MoveKeepsResult ==
    \A c \in DOMAIN calls :
        (Coalesced("move") /\ Done(c)) =>
            EndedAsRaw(c, apply_tree(diff.src, from_diff(diff.src, diff.dst, FALSE).ops))

\* the optimized patch of two arrays of scalars holds a replace and no
\* move: each replace is a remove and an add at one index that _optimize
\* put together, with the value of the add and nothing refined
ReplaceCoalesced ==
    /\ Coalesced("replace")
    /\ ~Coalesced("move")
    /\ IsScalarArr(diff.src) /\ IsScalarArr(diff.dst)

\* C26: whenever _optimize puts an operation and a later one at the same
\* path together as one replace at that path with the value of the later
\* add, the patch gives on src the document the raw patch gives, whatever
\* operations lay between the two.
C26_ReplaceKeepsResult ==
    \A c \in DOMAIN calls :
        (ReplaceCoalesced /\ Done(c)) =>
            EndedAsRaw(c, apply_tree(diff.src, from_diff(diff.src, diff.dst, FALSE).ops))

\* the call c begins a remove of the raw patch from_diff made, which has
\* the value _compare_left recorded
RawRemoved(c) ==
    /\ diff.how = "raw"
    /\ Begins(c, "remove")
    /\ Current(c).hasValue

\* the value the remove carries is the one found at its path
RecordedIsThere(c, item) ==
    /\ item.err = NoErr
    /\ Same(deref(heap, item.s), deref(heap, Current(c).value))

\* C27: the value the raw array diff records on a remove is the element
\* of the source that this remove deletes when the raw patch is applied,
\* for every remove of every run of removals.
C27_RecordedValueIsRemoved ==
    \A c \in DOMAIN calls :
        RawRemoved(c) =>
            RecordedIsThere(c, getitem(heap, to_last(heap, calls[c].obj,
                                                     Current(c).path)))

\* the call c begins an operation
BeginsOperation(c) ==
    /\ calls[c].status = "running"
    /\ calls[c].pc <= Len(patch)
    /\ calls[c].loc = Start

\* the operation of c, which did r, changed nothing if it raised
Raised(c, r) ==
    r.err # NoErr => Same(deref(r.h, r.obj), deref(heap, calls[c].obj))

\* C28: an operation that fails has changed nothing: the document at the
\* failure is the document as it was before the operation, so a move or
\* a copy whose add fails leaves its source where it was.
C28_FailedOperationChangesNothing ==
    \A c \in DOMAIN calls : BeginsOperation(c) => Raised(c, Whole(c))

====
